---- MODULE Spec2Model ----
(***************************************************************************)
(* Verification model of the agp-tpf-utils assembly re-projection core:    *)
(* IndexedAssembly interval lookup, OverlapResult overhang arithmetic,     *)
(* OverhangResolver, ScaffoldNamer unloc naming, BuildAssembly pipeline    *)
(* and the Fragment junction encoding.                                     *)
(*                                                                         *)
(* Python sequences are 0-based; the operators below keep Python's index   *)
(* values and go through At/PyAt so that they read like the source.        *)
(***************************************************************************)
EXTENDS Integers, Sequences, FiniteSets, TLC

VARIABLES
    fpc, fRows, fBait, fRes,          \* lookup harness: scaffold rows, bait, find_overlaps result
    jpc, jRows, jRev,                 \* junction harness: scaffold rows and their reverse()
    bpc, build,                       \* build: position in the pipeline, the BuildAssembly
    npc, chr_namer,                   \* autosome naming: position, the ChrNamer
    spc, scaffold_namer, named, last_call,
                                      \* scaffold naming: position, the ScaffoldNamer,
                                      \* the scaffolds labelled so far, the last call
    cpc, long_scffld, max_contig_length, cut_parts,
                                      \* long scaffold cutting: position, argument,
                                      \* BuildAssembly.max_contig_length, result
    tpc, tRows, tBait, tErr, tBefore, tFound, tRegistered, tImproves
                                      \* overhang trimming: position, scaffold rows, bait,
                                      \* err_length, the OverlapResult before and after
                                      \* trim_large_overhangs, whether it was registered,
                                      \* what improves() said of its two ends

fvars == <<fpc, fRows, fBait, fRes>>
jvars == <<jpc, jRows, jRev>>
bvars == <<bpc, build>>
nvars == <<npc, chr_namer>>
cvars == <<cpc, long_scffld, max_contig_length, cut_parts>>
svars == <<spc, scaffold_namer, named, last_call>>
tvars == <<tpc, tRows, tBait, tErr, tBefore, tFound, tRegistered, tImproves>>
ovars == <<nvars, cvars, svars, tvars>>
vars == <<fvars, jvars, bvars, ovars>>

----------------------------------------------------------------------------
(* Bounds of the enumerated inputs *)

MaxRows == 3        \* rows per enumerated input scaffold
MaxRowLen == 2      \* length of one enumerated row
MaxJFrags == 3      \* fragments per scaffold in the junction harness
MaxJCoord == 2      \* largest fragment coordinate in the junction harness
MaxBuildRows == 3   \* rows of the input scaffold that overlapping baits are laid on
MaxFragLen == 3     \* length of one of its fragments
MaxBaits == 3       \* curated fragments laid on it
MaxBpPerTexel == 1  \* Pretext resolution
MaxUnlocLen == 3    \* length of an unlocalised input scaffold
MaxMissingRows == 5 \* rows of an input scaffold that is partly in the map
MaxTrimRows == 3    \* rows of the scaffold in the overhang trimming harness
MaxTrimRowLen == 7  \* length of one of its rows
MaxTrimLength == 8  \* length of the scaffold
MaxErrLength == 2   \* err_length given to trim_large_overhangs

----------------------------------------------------------------------------
(* Generic helpers *)

Abs(x) == IF x < 0 THEN -x ELSE x
Max2(a, b) == IF a > b THEN a ELSE b
Min2(a, b) == IF a < b THEN a ELSE b

\* Python seq[i] for 0 <= i < len(seq)
At(seq, i) == seq[i + 1]

\* Python slice seq[i : j]
Slice(seq, i, j) == IF j <= i THEN <<>> ELSE SubSeq(seq, i + 1, j)

RECURSIVE SeqSum(_)
SeqSum(s) == IF s = <<>> THEN 0 ELSE Head(s) + SeqSum(Tail(s))

----------------------------------------------------------------------------
(* Fragment and Gap: rows of a Scaffold *)

Fragment(name, start, end, strand, tags) ==
    [kind |-> "F", name |-> name, start |-> start, end |-> end,
     strand |-> strand, tags |-> tags]

Gap(length, gap_type) ==
    [kind |-> "G", length |-> length, gap_type |-> gap_type]

IsGap(row) == row.kind = "G"
IsFragment(row) == row.kind = "F"

\* Fragment.length / Gap.length
RowLength(row) == IF IsGap(row) THEN row.length ELSE row.end - row.start + 1

\* Fragment.key_tuple
key_tuple(frag) == <<frag.name, frag.start, frag.end>>

\* Fragment.reverse
FragmentReverse(frag) == [frag EXCEPT !.strand = -1 * frag.strand]

\* Scaffold.length
ScaffoldLength(rows) == SeqSum([i \in 1..Len(rows) |-> RowLength(rows[i])])

\* Scaffold.fragments()
fragments(rows) == SelectSeq(rows, IsFragment)

----------------------------------------------------------------------------
(* IndexedAssembly: per-scaffold index of row end positions and the lookup *)

\* IndexedAssembly.add_scaffold: idx[i] is the end position of row i
overlap_index(rows) ==
    [i \in 1..Len(rows) |-> SeqSum([k \in 1..i |-> RowLength(rows[k])])]

\* The binary search loop of __get_overlap_fragment_indices; -1 stands for
\* "ovr is None"
RECURSIVE BinarySearch(_, _, _, _, _)
BinarySearch(idx, a, z, start, end) ==
    IF ~(a < z) THEN -1
    ELSE LET m == a + ((z - a) \div 2)
             scffld_start == IF m = 0 THEN 1 ELSE 1 + At(idx, m - 1)
             scffld_end == At(idx, m)
         IN  IF scffld_end < start THEN BinarySearch(idx, m + 1, z, start, end)
             ELSE IF scffld_start > end THEN BinarySearch(idx, a, m, start, end)
             ELSE m

\* for i in range(ovr - 1, -1, -1): if idx[i] < start: break; i_ovr = i
RECURSIVE ExtendLeft(_, _, _)
ExtendLeft(idx, i_ovr, start) ==
    IF i_ovr - 1 >= 0 /\ ~(At(idx, i_ovr - 1) < start)
    THEN ExtendLeft(idx, i_ovr - 1, start)
    ELSE i_ovr

\* for j in range(ovr + 1, len(idx)): if 1 + idx[j - 1] > end: break; j_ovr = j
RECURSIVE ExtendRight(_, _, _)
ExtendRight(idx, j_ovr, end) ==
    IF j_ovr + 1 < Len(idx) /\ ~(1 + At(idx, j_ovr) > end)
    THEN ExtendRight(idx, j_ovr + 1, end)
    ELSE j_ovr

\* IndexedAssembly.__get_overlap_fragment_indices: <<>> stands for None
get_overlap_fragment_indices(idx, start, end) ==
    LET ovr == BinarySearch(idx, 0, Len(idx), start, end)
    IN  IF ovr = -1 THEN <<>>
        ELSE <<ExtendLeft(idx, ovr, start), ExtendRight(idx, ovr, end)>>

\* Python rows[j]: a negative j counts from the end of the list
PyAt(rows, j) == IF j < 0 THEN rows[Len(rows) + j + 1] ELSE rows[j + 1]

\* while isinstance(scffld.rows[i_ovr], Gap): i_ovr += 1
\* Len(rows) is returned when rows[i_ovr] raises IndexError
RECURSIVE WalkStart(_, _)
WalkStart(rows, i_ovr) ==
    IF i_ovr >= Len(rows) THEN Len(rows)
    ELSE IF IsGap(PyAt(rows, i_ovr)) THEN WalkStart(rows, i_ovr + 1)
    ELSE i_ovr

\* while isinstance(scffld.rows[j_ovr], Gap): j_ovr -= 1
\* -Len(rows) - 1 is returned when rows[j_ovr] raises IndexError
RECURSIVE WalkEnd(_, _)
WalkEnd(rows, j_ovr) ==
    IF j_ovr < -Len(rows) THEN -Len(rows) - 1
    ELSE IF IsGap(PyAt(rows, j_ovr)) THEN WalkEnd(rows, j_ovr - 1)
    ELSE j_ovr

\* OverlapResult.__init__
OverlapResult(bait, rows, start, end) ==
    [status |-> "ok", bait |-> bait, start |-> start, end |-> end, rows |-> rows,
     name |-> "matches to bait", tag |-> "", haplotype |-> "", rank |-> 0,
     original_name |-> "", original_tags |-> {}, chr_name |-> ""]

\* An outcome of find_overlaps that is not an OverlapResult:
\* "none" (returns None), "ValueError", "IndexError"
NoResult(status) ==
    [status |-> status, bait |-> <<>>, start |-> 0, end |-> -1, rows |-> <<>>,
     name |-> "", tag |-> "", haplotype |-> "", rank |-> 0,
     original_name |-> "", original_tags |-> {}, chr_name |-> ""]

\* IndexedAssembly.find_overlaps on the rows of the scaffold named bait.name
find_overlaps(rows, bait) ==
    IF rows = <<>> THEN NoResult("ValueError")
    ELSE
    LET idx == overlap_index(rows)
        rng == get_overlap_fragment_indices(idx, bait.start, bait.end)
    IN  IF rng = <<>> THEN NoResult("none")
        ELSE
        LET i_ovr == WalkStart(rows, rng[1])
            j_ovr == WalkEnd(rows, rng[2])
        IN  IF i_ovr = Len(rows) THEN NoResult("IndexError")
            ELSE IF j_ovr = -Len(rows) - 1 THEN NoResult("IndexError")
            ELSE IF ~(i_ovr <= j_ovr) THEN NoResult("none")
            ELSE OverlapResult(
                     bait,
                     Slice(rows, i_ovr, j_ovr + 1),
                     IF i_ovr = 0 THEN 1 ELSE 1 + At(idx, i_ovr - 1),
                     At(idx, j_ovr))

----------------------------------------------------------------------------
(* Enumerated input scaffolds *)

\* A shape is a sequence of <<kind, length, strand>>; its rows get the
\* coordinates a TPF or FASTA-derived scaffold has: a fragment is named after
\* its scaffold and carries its scaffold positions.
RECURSIVE MkRowsFrom(_, _, _)
MkRowsFrom(shape, name, offset) ==
    IF shape = <<>> THEN <<>>
    ELSE LET h == Head(shape)
             row == IF h[1] = "G" THEN Gap(h[2], "scaffold")
                    ELSE Fragment(name, offset + 1, offset + h[2], h[3], {})
         IN  <<row>> \o MkRowsFrom(Tail(shape), name, offset + h[2])

MkRows(shape, name) == MkRowsFrom(shape, name, 0)

\* No two Gaps in a row and at least one Fragment, as index_fasta_file and
\* the TPF parser produce; a Gap may come first or last.
WellFormedShape(shape) ==
    /\ \E i \in 1..Len(shape) : shape[i][1] = "F"
    /\ \A i \in 1..Len(shape) - 1 : ~(shape[i][1] = "G" /\ shape[i + 1][1] = "G")

ShapesOf(n, lens, strands) ==
    {sh \in [1..n -> ({"F"} \X lens \X strands) \cup ({"G"} \X lens \X {0})] :
        WellFormedShape(sh)}

FindShapes == UNION {ShapesOf(n, 1..MaxRowLen, {1}) : n \in 1..MaxRows}

----------------------------------------------------------------------------
(* Lookup harness: one bait against one indexed scaffold *)

FindInit ==
    /\ fpc = "bait"
    /\ \E shape \in FindShapes :
         /\ fRows = MkRows(shape, "s1")
         /\ \E s \in 1..ScaffoldLength(fRows) + 1 :
              \E e \in s..ScaffoldLength(fRows) + 1 :
                 fBait = Fragment("s1", s, e, 1, {})
    /\ fRes = NoResult("unset")

FindOverlaps ==
    /\ fpc = "bait"
    /\ fRes' = find_overlaps(fRows, fBait)
    /\ fpc' = "found"
    /\ UNCHANGED <<fRows, fBait>>

JIdle == jpc = "off" /\ jRows = <<>> /\ jRev = <<>>

BIdle == bpc = "off" /\ build = <<>>

NIdle == npc = "off" /\ chr_namer = <<>>

CIdle == cpc = "off" /\ long_scffld = <<>> /\ max_contig_length = 0 /\ cut_parts = <<>>

SIdle == spc = "off" /\ scaffold_namer = <<>> /\ named = <<>> /\ last_call = <<>>

TIdle ==
    /\ tpc = "off" /\ tRows = <<>> /\ tBait = <<>> /\ tErr = 0
    /\ tBefore = NoResult("unset") /\ tFound = NoResult("unset")
    /\ tRegistered = FALSE /\ tImproves = <<>>

OIdle == NIdle /\ CIdle /\ SIdle /\ TIdle

SpecFindInit == FindInit /\ JIdle /\ BIdle /\ OIdle
SpecFindNext == FindOverlaps /\ UNCHANGED <<jvars, bvars, ovars>>
SpecFind == SpecFindInit /\ [][SpecFindNext]_vars

\* Reference: the rows a linear scan over the scaffold gives
RowStart(rows, i) == 1 + SeqSum([k \in 1..i - 1 |-> RowLength(rows[k])])
RowEnd(rows, i) == SeqSum([k \in 1..i |-> RowLength(rows[k])])
Hits(rows, s, e) ==
    {i \in 1..Len(rows) : RowStart(rows, i) <= e /\ RowEnd(rows, i) >= s}
FragmentHits(rows, s, e) == {i \in Hits(rows, s, e) : IsFragment(rows[i])}
SetMin(S) == CHOOSE x \in S : \A y \in S : x <= y
SetMax(S) == CHOOSE x \in S : \A y \in S : x >= y

LinearScan(rows, bait) ==
    LET fh == FragmentHits(rows, bait.start, bait.end)
    IN  IF fh = {} THEN NoResult("none")
        ELSE OverlapResult(bait, SubSeq(rows, SetMin(fh), SetMax(fh)),
                           RowStart(rows, SetMin(fh)), RowEnd(rows, SetMax(fh)))

\* C1: for every indexed scaffold with at least one row and every bait,
\* find_overlaps returns exactly the contiguous run of rows whose
\* scaffold-coordinate interval intersects the bait, with leading and
\* trailing Gap rows removed (what a linear scan gives), and None when no
\* row intersects.
C1_FindOverlapsIsLinearScan ==
    fpc = "found" => fRes = LinearScan(fRows, fBait)

\* C9: for every bait whose intersecting rows are all Gaps, also on a
\* scaffold that begins or ends with a Gap, find_overlaps returns None and
\* does not raise.
C9_OnlyGapsGivesNone ==
    (/\ fpc = "found"
     /\ Hits(fRows, fBait.start, fBait.end) # {}
     /\ FragmentHits(fRows, fBait.start, fBait.end) = {})
    => fRes.status = "none"

----------------------------------------------------------------------------
(* Junction encoding: Fragment.junction_tuple, Scaffold.reverse,           *)
(* Scaffold.fragment_junction_set                                          *)

\* One element of a junction tuple: a name or a coordinate. Python compares
\* a str with an int as unequal; the two kinds are kept apart here.
JName(name) == [s |-> name, n |-> 0]
JCoord(k) == [s |-> "", n |-> k]

\* Fragment.junction_tuple for strands +1 / -1
junction_tuple(self, othr) ==
    IF self.strand = 1
    THEN IF othr.strand = 1
         THEN <<JName(self.name), JCoord(self.end), JName(othr.name), JCoord(othr.start)>>
         ELSE <<JName(self.name), JCoord(self.end), JCoord(othr.end), JName(othr.name)>>
    ELSE IF othr.strand = 1
         THEN <<JCoord(self.start), JName(self.name), JName(othr.name), JCoord(othr.start)>>
         ELSE <<JName(othr.name), JCoord(othr.end), JName(self.name), JCoord(self.start)>>

\* Junctions of fragments in consecutive rows only: a Gap between two
\* fragments ends the junction
fragment_junction_set_adjacent(rows) ==
    {junction_tuple(rows[i], rows[i + 1]) :
        i \in {k \in 1..Len(rows) - 1 : IsFragment(rows[k]) /\ IsFragment(rows[k + 1])}}

\* Scaffold.fragment_junction_set: junctions of consecutive fragments, Gaps skipped
fragment_junction_set(rows) ==
    LET frags == fragments(rows)
    IN  {junction_tuple(frags[i], frags[i + 1]) : i \in 1..Len(frags) - 1}

\* Scaffold.reverse: row order reversed, every fragment's strand flipped
ScaffoldReverse(rows) ==
    [i \in 1..Len(rows) |->
        LET row == rows[Len(rows) + 1 - i]
        IN  IF IsFragment(row) THEN FragmentReverse(row) ELSE row]

JFragments ==
    {Fragment(nm, st, en, sd, {}) :
        nm \in {"a", "b"}, st \in 1..MaxJCoord, en \in 1..MaxJCoord, sd \in {1, -1}}

JInit ==
    /\ jpc = "built"
    /\ \E n \in 2..MaxJFrags : \E fs \in [1..n -> {f \in JFragments : f.start <= f.end}] :
         \E gap \in BOOLEAN :
            jRows = IF gap THEN <<fs[1], Gap(1, "scaffold")>> \o Tail(fs) ELSE fs
    /\ jRev = <<>>

Reverse ==
    /\ jpc = "built"
    /\ jRev' = ScaffoldReverse(jRows)
    /\ jpc' = "reversed"
    /\ UNCHANGED jRows

FIdle == fpc = "off" /\ fRows = <<>> /\ fBait = <<>> /\ fRes = NoResult("unset")

SpecJunctionInit == JInit /\ FIdle /\ BIdle /\ OIdle
SpecJunctionNext == Reverse /\ UNCHANGED <<fvars, bvars, ovars>>
SpecJunction == SpecJunctionInit /\ [][SpecJunctionNext]_vars

\* C6: for every Scaffold whose fragments all have strand +1 or -1,
\* Scaffold.reverse() has the same fragment_junction_set as the original,
\* for every strand pair of adjacent fragments.
C6_ReverseKeepsJunctionSet ==
    jpc = "reversed" => fragment_junction_set(jRev) = fragment_junction_set(jRows)

\* The strand pairs for which the two junction sets do agree: (+,+) and (-,-)
C6_SameStrandPairsAgree ==
    (/\ jpc = "reversed"
     /\ \A i \in 1..Len(fragments(jRows)) - 1 :
           fragments(jRows)[i].strand = fragments(jRows)[i + 1].strand)
    => fragment_junction_set(jRev) = fragment_junction_set(jRows)

----------------------------------------------------------------------------
(* OverlapResult: overhang arithmetic, discard and trim operations.        *)
(* An OverlapResult r is the record OverlapResult(...) builds; r.status is *)
(* "ok" or the name of the exception an operation on it raised.            *)

\* OverlapResult.length
length(r) == r.end - r.start + 1

\* start_overhang counting the first base of the bait as overhang
start_overhang_from_zero(r) == r.bait.start - r.start + 1

\* OverlapResult.start_overhang
start_overhang(r) == r.bait.start - r.start

\* OverlapResult.end_overhang
end_overhang(r) == r.end - r.bait.end

\* OverlapResult.start_row_bait_overlap (rows not empty)
start_row_bait_overlap(r) ==
    LET start == Max2(r.bait.start, r.start)
        end == Min2(r.bait.end, r.start + RowLength(PyAt(r.rows, 0)) - 1)
    IN  IF end < start THEN 0 ELSE end - start + 1

\* OverlapResult.end_row_bait_overlap (rows not empty)
end_row_bait_overlap(r) ==
    LET start == Max2(r.bait.start, r.end - RowLength(PyAt(r.rows, -1)) + 1)
        end == Min2(r.bait.end, r.end)
    IN  IF end < start THEN 0 ELSE end - start + 1

\* "while self.rows:" without the test for a Gap
PopLeadingRows(r) == [r EXCEPT !.rows = <<>>, !.start = r.end + 1]

\* while self.rows and isinstance(self.rows[0], Gap): pop it, start += its length
RECURSIVE PopLeadingGaps(_)
PopLeadingGaps(r) ==
    IF r.rows # <<>> /\ IsGap(PyAt(r.rows, 0))
    THEN PopLeadingGaps([r EXCEPT !.rows = Tail(r.rows),
                                  !.start = r.start + RowLength(PyAt(r.rows, 0))])
    ELSE r

\* while self.rows and isinstance(self.rows[-1], Gap): pop it, end -= its length
RECURSIVE PopTrailingGaps(_)
PopTrailingGaps(r) ==
    IF r.rows # <<>> /\ IsGap(PyAt(r.rows, -1))
    THEN PopTrailingGaps([r EXCEPT !.rows = SubSeq(r.rows, 1, Len(r.rows) - 1),
                                   !.end = r.end - RowLength(PyAt(r.rows, -1))])
    ELSE r

\* discard_start without the loop that pops the Gaps left at the start
discard_start_row_only(r) ==
    IF r.rows = <<>> THEN [r EXCEPT !.status = "IndexError"]
    ELSE [r EXCEPT !.rows = Tail(r.rows),
                   !.start = r.start + RowLength(PyAt(r.rows, 0))]

\* discard_end that leaves self.end where it was
discard_end_rows_only(r) ==
    IF r.rows = <<>> THEN [r EXCEPT !.status = "IndexError"]
    ELSE [PopTrailingGaps([r EXCEPT !.rows = SubSeq(r.rows, 1, Len(r.rows) - 1)])
             EXCEPT !.end = r.end]

\* OverlapResult.discard_start; pop from an empty list raises IndexError
discard_start(r) ==
    IF r.rows = <<>> THEN [r EXCEPT !.status = "IndexError"]
    ELSE PopLeadingGaps([r EXCEPT !.rows = Tail(r.rows),
                                  !.start = r.start + RowLength(PyAt(r.rows, 0))])

\* OverlapResult.discard_end
discard_end(r) ==
    IF r.rows = <<>> THEN [r EXCEPT !.status = "IndexError"]
    ELSE PopTrailingGaps([r EXCEPT !.rows = SubSeq(r.rows, 1, Len(r.rows) - 1),
                                   !.end = r.end - RowLength(PyAt(r.rows, -1))])

\* OverlapResult.overhang_if_start_removed: what start_overhang would become
\* if the start row and the Gaps after it were discarded
overhang_if_start_removed(r) == start_overhang(discard_start(r))

\* OverlapResult.overhang_if_end_removed
overhang_if_end_removed(r) == end_overhang(discard_end(r))

\* The guard taken on the length of the only row instead of the bait's
only_row_is_long(r, err_length) ==
    Len(r.rows) = 1 /\ RowLength(PyAt(r.rows, 0)) > err_length

\* if len(self.rows) == 1 and self.bait.length > err_length: return
only_row_under_long_bait(r, err_length) ==
    Len(r.rows) = 1 /\ RowLength(r.bait) > err_length

\* OverlapResult.trim_large_overhangs
trim_large_overhangs(r, err_length) ==
    IF only_row_under_long_bait(r, err_length) THEN r
    ELSE
    LET r1 == IF start_overhang(r) > err_length
                 /\ start_row_bait_overlap(r) < err_length
              THEN discard_start(r) ELSE r
    IN  IF end_overhang(r1) > err_length
        THEN IF r1.rows = <<>> THEN [r1 EXCEPT !.status = "IndexError"]
             ELSE IF end_row_bait_overlap(r1) < err_length THEN discard_end(r1)
             ELSE r1
        ELSE r1

\* OverlapResult.fragment_start_if_trimmed (rows not empty)
fragment_start_if_trimmed(r, frag) ==
    IF frag.strand = 1
    THEN IF PyAt(r.rows, 0) = frag THEN frag.start + start_overhang(r) ELSE frag.start
    ELSE IF PyAt(r.rows, -1) = frag THEN frag.start + end_overhang(r) ELSE frag.start

\* OverlapResult.trim_fragment: <<the OverlapResult after the call, the new
\* Fragment>>; status "ValueError" when trim is not a terminal row or the new
\* Fragment has start > end, "IndexError" when there are no rows
trim_fragment(r, trim, keep_start, keep_end) ==
    IF r.rows = <<>> THEN <<[r EXCEPT !.status = "IndexError"], trim>>
    ELSE
    LET at_start == PyAt(r.rows, 0) = trim
        at_end == PyAt(r.rows, -1) = trim
        start_ovr == start_overhang(r)
        cut_start == at_start /\ start_ovr > 0 /\ ~keep_start
        start1 == IF cut_start /\ trim.strand = 1 THEN trim.start + start_ovr
                  ELSE trim.start
        end1 == IF cut_start /\ trim.strand # 1 THEN trim.end - start_ovr
                ELSE trim.end
        r1 == IF cut_start THEN [r EXCEPT !.start = r.start + start_ovr] ELSE r
        end_ovr == end_overhang(r1)
        cut_end == at_end /\ end_ovr > 0 /\ ~keep_end
        end2 == IF cut_end /\ trim.strand = 1 THEN end1 - end_ovr ELSE end1
        start2 == IF cut_end /\ trim.strand # 1 THEN start1 + end_ovr ELSE start1
        r2 == IF cut_end THEN [r1 EXCEPT !.end = r1.end - end_ovr] ELSE r1
        new == Fragment(trim.name, start2, end2, trim.strand,
                        {"Cut"} \cup (r.bait.tags \ {"Painted"}))
        idx == IF at_end THEN Len(r.rows) ELSE 1
    IN  IF ~at_start /\ ~at_end THEN <<[r2 EXCEPT !.status = "ValueError"], trim>>
        ELSE IF start2 > end2 THEN <<[r2 EXCEPT !.status = "ValueError"], new>>
        ELSE <<[r2 EXCEPT !.rows[idx] = new], new>>

\* OverlapResult.to_scaffold: the rows, reversed if the bait is on strand -1
to_scaffold(r) == IF r.bait.strand = -1 THEN ScaffoldReverse(r.rows) ELSE r.rows

----------------------------------------------------------------------------
(* ScaffoldNamer.  None is "" for a name and 0 for a rank; scaffolds are   *)
(* held by their index in the list of all scaffolds built so far.          *)

\* ScaffoldNamer.__init__
ScaffoldNamer ==
    [current_scaffold_name |-> "", current_rank |-> 0, current_haplotype |-> "",
     haplotig_n |-> 0, haplotig_scaffolds |-> <<>>, primary_haplotype |-> "",
     target_tags |-> FALSE, unloc_n |-> 0, unloc_scaffolds |-> <<>>,
     haplotype_lc_dict |-> <<>>, error |-> ""]

OTHER_KNOWN_TAGS ==
    {"Contaminant", "Cut", "FalseDuplicate", "Haplotig", "Singleton", "Unloc"}

\* re.fullmatch(r"([A-Z]\d*[A-Z]?|[IVX_]+|\d+[A-Z]+)", tag) on the tags used
MatchesChrName(tag) == tag \in {"X", "Y", "Z", "W", "B1", "I_II", "2RL"}

\* str.lower on the haplotype names used
Lower(str) ==
    CASE str \in {"Hap1", "HAP1", "hap1"} -> "hap1"
      [] str \in {"Hap2", "HAP2", "hap2"} -> "hap2"
      [] OTHER -> str

\* group(1) of re.search(r"^([^_]+)_.+_\d+$", name) on the names used, or ""
FirstRowNameHaplotype(name) ==
    CASE name = "hap1_s_1" -> "hap1"
      [] name = "hap2_s_1" -> "hap2"
      [] OTHER -> ""

\* dict.get on a list of <<key, value>> pairs, "" if the key is absent
DictGet(dict, key) ==
    LET hits == SelectSeq(dict, LAMBDA kv: kv[1] = key)
    IN  IF hits = <<>> THEN "" ELSE hits[1][2]

\* ScaffoldNamer.get_set_haplotype: the dict after the call
haplotype_lc_dict_set(dict, haplotype) ==
    IF DictGet(dict, Lower(haplotype)) = ""
    THEN Append(dict, <<Lower(haplotype), haplotype>>)
    ELSE dict

\* ScaffoldNamer.get_set_haplotype: the value returned
get_set_haplotype(dict, haplotype) ==
    DictGet(haplotype_lc_dict_set(dict, haplotype), Lower(haplotype))

\* Scaffold.fragment_tags
RECURSIVE fragment_tags(_)
fragment_tags(rows) ==
    IF rows = <<>> THEN {}
    ELSE (IF IsFragment(rows[1]) THEN rows[1].tags ELSE {})
         \cup fragment_tags(Tail(rows))

\* The Primary tag sets the primary haplotype on every scaffold that carries it
sets_primary_always(primary_tag, primary_haplotype) == primary_tag

\* if primary_tag and not self.primary_haplotype
sets_primary(primary_tag, primary_haplotype) ==
    primary_tag /\ primary_haplotype = ""

\* ScaffoldNamer.make_scaffold_name for the scaffold called name with these
\* rows (the first one a Fragment): the ScaffoldNamer after the call
make_scaffold_name(namer, name, rows) ==
    LET tags == fragment_tags(rows)
        is_painted == "Painted" \in tags
        primary_tag == "Primary" \in tags
        chr_tags == {t \in tags \ {"Painted", "Target", "Primary"} :
                        MatchesChrName(t)}
        hap_tags == {t \in tags \ {"Painted", "Target", "Primary"} :
                        ~MatchesChrName(t) /\ t \notin OTHER_KNOWN_TAGS}
        n1 == [namer EXCEPT !.target_tags = namer.target_tags \/ "Target" \in tags]
    IN  IF Cardinality(chr_tags) > 1 \/ Cardinality(hap_tags) > 1
        THEN [n1 EXCEPT !.error = "TaggingError"]
        ELSE
        LET tag_name == IF chr_tags = {} THEN "" ELSE CHOOSE t \in chr_tags : TRUE
            from_tag == IF hap_tags = {} THEN "" ELSE CHOOSE t \in hap_tags : TRUE
            from_row == FirstRowNameHaplotype(rows[1].name)
            found == IF from_tag # "" THEN from_tag ELSE from_row
            dict1 == IF found = "" THEN n1.haplotype_lc_dict
                     ELSE haplotype_lc_dict_set(n1.haplotype_lc_dict, found)
            haplotype == IF found = "" THEN "" ELSE get_set_haplotype(dict1, found)
            set_prim == sets_primary(primary_tag, n1.primary_haplotype)
            prim == IF set_prim THEN haplotype ELSE n1.primary_haplotype
            scaffold_name == IF tag_name # "" THEN tag_name
                             ELSE IF is_painted THEN name
                             ELSE rows[1].name
            rank == IF tag_name # "" THEN 2 ELSE IF is_painted THEN 1 ELSE 3
        IN  IF set_prim /\ haplotype = ""
            THEN [n1 EXCEPT !.haplotype_lc_dict = dict1, !.error = "TaggingError"]
            ELSE [n1 EXCEPT
                    !.haplotype_lc_dict = dict1,
                    !.primary_haplotype = prim,
                    !.current_haplotype =
                        IF prim # "" /\ haplotype = prim THEN "Primary" ELSE haplotype,
                    !.current_scaffold_name = scaffold_name,
                    !.current_rank = rank,
                    !.unloc_n = 0,
                    !.unloc_scaffolds = Append(n1.unloc_scaffolds, <<>>)]

\* ScaffoldNamer.unloc_name: the name returned
unloc_name(namer) ==
    namer.current_scaffold_name \o "_unloc_" \o ToString(namer.unloc_n + 1)

\* ScaffoldNamer.haplotig_name: the name returned
haplotig_name(namer) == "H_" \o ToString(namer.haplotig_n + 1)

\* The branches of label_scaffold with the Unloc test ahead of the others
label_kind_unloc_first(tags, scaffold_tags) ==
    IF "Unloc" \in tags THEN "Unloc"
    ELSE IF "FalseDuplicate" \in tags THEN "FalseDuplicate"
    ELSE IF "Haplotig" \in tags THEN "Haplotig"
    ELSE IF "Painted" \in scaffold_tags THEN "Painted"
    ELSE ""

\* The branch label_scaffold takes in its if / elif chain
label_kind(tags, scaffold_tags) ==
    IF "FalseDuplicate" \in tags THEN "FalseDuplicate"
    ELSE IF "Haplotig" \in tags THEN "Haplotig"
    ELSE IF "Unloc" \in tags THEN "Unloc"
    ELSE IF "Painted" \in scaffold_tags THEN "Painted"
    ELSE ""

\* The Contaminant test without the Target mode
tagged_contaminant(tags, target_tags, scaffold_tags) == "Contaminant" \in tags

\* if "Contaminant" in fragment.tags or (self.target_tags and "Target" not in
\* scaffold_tags)
is_contaminant(tags, target_tags, scaffold_tags) ==
    "Contaminant" \in tags \/ (target_tags /\ "Target" \notin scaffold_tags)

\* ScaffoldNamer.label_scaffold for the scaffold held at index id:
\* <<the ScaffoldNamer after the call, the scaffold after the call>>
label_scaffold(namer, scaffold, id, fragment, scaffold_tags, original_name) ==
    LET contaminant == is_contaminant(fragment.tags, namer.target_tags, scaffold_tags)
        kind == label_kind(fragment.tags, scaffold_tags)
        name == CASE kind = "Haplotig" -> haplotig_name(namer)
                  [] kind = "Unloc" -> unloc_name(namer)
                  [] OTHER -> namer.current_scaffold_name
        tag == CASE kind = "FalseDuplicate" -> "FalseDuplicate"
                 [] kind = "Haplotig" -> "Haplotig"
                 [] OTHER -> IF contaminant THEN "Contaminant" ELSE scaffold.tag
        rank == IF contaminant \/ kind \in {"FalseDuplicate", "Haplotig"}
                THEN 3 ELSE namer.current_rank
        n1 == CASE kind = "Haplotig" ->
                     [namer EXCEPT !.haplotig_n = namer.haplotig_n + 1,
                                   !.haplotig_scaffolds = Append(@, id)]
                [] kind = "Unloc" ->
                     [namer EXCEPT !.unloc_n = namer.unloc_n + 1,
                                   !.unloc_scaffolds[Len(namer.unloc_scaffolds)] =
                                       Append(@, id)]
                [] OTHER -> namer
        labelled == [scaffold EXCEPT
                        !.name = name, !.tag = tag, !.rank = rank,
                        !.haplotype = namer.current_haplotype,
                        !.original_name = original_name,
                        !.original_tags = scaffold_tags,
                        !.chr_name = IF kind \in {"Unloc", "Painted"}
                                     THEN namer.current_scaffold_name ELSE @]
    IN  IF kind = "Unloc" /\ "Painted" \notin scaffold_tags
        THEN <<[namer EXCEPT !.error = "TaggingError"],
               IF contaminant THEN [scaffold EXCEPT !.tag = "Contaminant"]
               ELSE scaffold>>
        ELSE <<n1, labelled>>

----------------------------------------------------------------------------
(* Sorting and list helpers                                                *)

\* Insert <<key, item>> after every pair whose key is not greater
RECURSIVE InsertPair(_, _)
InsertPair(sorted, pair) ==
    IF sorted = <<>> THEN <<pair>>
    ELSE IF pair[1] < sorted[1][1] THEN <<pair>> \o sorted
    ELSE <<sorted[1]>> \o InsertPair(Tail(sorted), pair)

\* sorted(pairs, key=first): a stable sort of <<key, item>> pairs
RECURSIVE SortPairs(_)
SortPairs(pairs) ==
    IF pairs = <<>> THEN <<>>
    ELSE InsertPair(SortPairs(SubSeq(pairs, 1, Len(pairs) - 1)), pairs[Len(pairs)])

\* The items of sorted(items, key) where keys[i] is the key of items[i]
SortedByKeys(items, keys) ==
    LET srtd == SortPairs([i \in 1..Len(items) |-> <<keys[i], items[i]>>])
    IN  [i \in 1..Len(items) |-> srtd[i][2]]

\* list.remove: the list without the first occurrence of x
RECURSIVE ListRemove(_, _)
ListRemove(list, x) ==
    IF list = <<>> THEN <<>>
    ELSE IF list[1] = x THEN Tail(list)
    ELSE <<list[1]>> \o ListRemove(Tail(list), x)

Contains(list, x) == \E i \in 1..Len(list) : list[i] = x

\* ScaffoldNamer.rename_by_size on the scaffolds held at these indices
rename_by_size(objs, ids) ==
    LET by_size == SortedByKeys(ids, [i \in 1..Len(ids) |-> 0 - length(objs[ids[i]])])
    IN  [id \in 1..Len(objs) |->
            IF \E i \in 1..Len(ids) : by_size[i] = id
            THEN [objs[id] EXCEPT !.name =
                     objs[ids[CHOOSE i \in 1..Len(ids) : by_size[i] = id]].name]
            ELSE objs[id]]

\* rename_unlocs_by_size when make_scaffold_name starts a new list in place of
\* the one before: only the last list is left to rename
rename_last_list_by_size(objs, lists) ==
    IF lists = <<>> THEN objs ELSE rename_by_size(objs, lists[Len(lists)])

\* ScaffoldNamer.rename_unlocs_by_size
RECURSIVE rename_lists_by_size(_, _)
rename_lists_by_size(objs, lists) ==
    IF lists = <<>> THEN objs
    ELSE rename_lists_by_size(rename_by_size(objs, lists[1]), Tail(lists))

----------------------------------------------------------------------------
(* OverhangPremise and OverhangResolver.  A premise is                     *)
(* [scaffold: index, fragment, side: "start" or "end"].                    *)

\* StartOverhangPremise.bait_overlap / EndOverhangPremise.bait_overlap
bait_overlap(objs, prem) ==
    IF prem.side = "start" THEN start_row_bait_overlap(objs[prem.scaffold])
    ELSE end_row_bait_overlap(objs[prem.scaffold])

\* The overhang of the end of the scaffold that the premise is about
premise_overhang(objs, prem) ==
    IF prem.side = "start" THEN start_overhang(objs[prem.scaffold])
    ELSE end_overhang(objs[prem.scaffold])

\* overhang_if_applied
overhang_if_applied(objs, prem) ==
    IF prem.side = "start" THEN overhang_if_start_removed(objs[prem.scaffold])
    ELSE overhang_if_end_removed(objs[prem.scaffold])

\* overhang_error_delta_if_applied
overhang_error_delta_if_applied(objs, prem) ==
    Abs(overhang_if_applied(objs, prem)) - Abs(premise_overhang(objs, prem))

\* improves without its test of the error delta
improves_any_delta(objs, prem, err_length) ==
    IF Len(objs[prem.scaffold].rows) = 1 THEN FALSE
    ELSE overhang_if_applied(objs, prem) > (0 - 3) * err_length

\* improves without its test of the number of rows
improves_single_row(objs, prem, err_length) ==
    /\ overhang_error_delta_if_applied(objs, prem) < 0
    /\ overhang_if_applied(objs, prem) > (0 - 3) * err_length

\* improves with an overhang of exactly -3 * err_length let through
improves_at_limit(objs, prem, err_length) ==
    IF Len(objs[prem.scaffold].rows) = 1 THEN FALSE
    ELSE /\ overhang_error_delta_if_applied(objs, prem) < 0
         /\ overhang_if_applied(objs, prem) >= (0 - 3) * err_length

\* OverhangPremise.improves
improves(objs, prem, err_length) ==
    IF Len(objs[prem.scaffold].rows) = 1 THEN FALSE
    ELSE /\ overhang_error_delta_if_applied(objs, prem) < 0
         /\ overhang_if_applied(objs, prem) > (0 - 3) * err_length

\* OverhangPremise.makes_worse
makes_worse(objs, prem, err_length) == ~improves(objs, prem, err_length)

\* A premise whose apply leaves its scaffold as it was
apply_nothing(objs, prem) == objs

\* StartOverhangPremise.apply / EndOverhangPremise.apply: the scaffolds after
apply(objs, prem) ==
    [objs EXCEPT ![prem.scaffold] =
        IF prem.side = "start" THEN discard_start(@) ELSE discard_end(@)]

\* OverhangResolver.add_overhang_premise: the premise added, if any
add_overhang_premise(objs, fragment, id) ==
    IF PyAt(objs[id].rows, 0) = fragment
    THEN <<[scaffold |-> id, fragment |-> fragment, side |-> "start"]>>
    ELSE IF PyAt(objs[id].rows, -1) = fragment
    THEN <<[scaffold |-> id, fragment |-> fragment, side |-> "end"]>>
    ELSE <<>>

\* What a fix records: the premise applied, and for inspection the rule that
\* chose it, the number of rows and the overhang before, the overhang after
Fix(objs, prem, rule, prem_list) ==
    [scaffold |-> prem.scaffold, fragment |-> prem.fragment, side |-> prem.side,
     rule |-> rule,
     list_scaffolds |-> [k \in 1..Len(prem_list) |-> prem_list[k].scaffold],
     list_overlaps |-> [k \in 1..Len(prem_list) |-> bait_overlap(objs, prem_list[k])],
     rows_before |-> Len(objs[prem.scaffold].rows),
     overhang_before |-> premise_overhang(objs, prem),
     overhang_after |-> premise_overhang(apply(objs, prem), prem),
     holders |-> Cardinality({id \in 1..Len(objs) :
                                Contains(objs[id].rows, prem.fragment)})]

\* The first premise is applied whenever its overlap is not the longer one
frst_shorter_or_tied(frst_overlap, scnd_overlap) == frst_overlap <= scnd_overlap

\* if frst.bait_overlap < scnd.bait_overlap: the first premise is applied
frst_shorter(frst_overlap, scnd_overlap) == frst_overlap < scnd_overlap

\* One pass of the loop body of make_fixes, for one prem_list:
\* <<the scaffolds after, the fixes made here>>
fix_prem_list(objs, prem_list, err_length) ==
    LET prem_count == Len(prem_list)
        frst == prem_list[1]
        scnd == prem_list[2]
        best_to_worst ==
            SortedByKeys(prem_list,
                [i \in 1..prem_count |->
                    overhang_error_delta_if_applied(objs, prem_list[i])])
        bst == best_to_worst[1]
        nxt == best_to_worst[2]
    IN  IF prem_count = 2
           /\ bait_overlap(objs, frst) < err_length
           /\ bait_overlap(objs, scnd) < err_length
        THEN IF frst_shorter(bait_overlap(objs, frst), bait_overlap(objs, scnd))
             THEN <<apply(objs, frst), <<Fix(objs, frst, "overlap", prem_list)>>>>
             ELSE <<apply(objs, scnd), <<Fix(objs, scnd, "overlap", prem_list)>>>>
        ELSE IF prem_count > 1
                /\ improves(objs, bst, err_length)
                /\ makes_worse(objs, nxt, err_length)
        THEN <<apply(objs, bst), <<Fix(objs, bst, "best", prem_list)>>>>
        ELSE <<objs, <<>>>>

\* OverhangResolver.make_fixes over premises_by_fragment_key.values():
\* [objs: the scaffolds after, fixes_made, error]
RECURSIVE make_fixes(_, _, _)
make_fixes(objs, prem_lists, err_length) ==
    IF prem_lists = <<>> THEN [objs |-> objs, fixes_made |-> <<>>, error |-> ""]
    ELSE IF \E i \in 1..Len(prem_lists[1]) :
               objs[prem_lists[1][i].scaffold].rows = <<>>
    THEN [objs |-> objs, fixes_made |-> <<>>, error |-> "IndexError"]
    ELSE
    LET here == fix_prem_list(objs, prem_lists[1], err_length)
        rest == make_fixes(here[1], Tail(prem_lists), err_length)
    IN  [rest EXCEPT !.fixes_made = here[2] \o @]

----------------------------------------------------------------------------
(* BuildAssembly.  The object is a record ba:                              *)
(*   input, prtxt    the input and the curated assembly, lists of          *)
(*                   [name, rows]                                          *)
(*   bp_per_texel                                                          *)
(*   objs            every scaffold object built so far                    *)
(*   scaffolds       self.scaffolds, as indices into objs                  *)
(*   found           self.found_fragments in insertion order, a list of    *)
(*                   FoundFragment [fragment, scaffolds: indices]          *)
(*   multi           the keys of self.fragments_found_more_than_once in    *)
(*                   insertion order; its values are those of found        *)
(*   namer           self.scaffold_namer                                   *)
(*   fixes_made      what the last make_fixes returned                     *)
(*   cuts            for each cut_fragments call: the fragment, the        *)
(*                   sub_fragments made, the ordered scaffolds, whether    *)
(*                   the call raised                                       *)
(*   fused           what scaffolds_fused_by_name returned                 *)
(*   error           the exception raised, "" if none                      *)

\* AssemblyStats.__init__: -1 stands for None
AssemblyStats == [cuts |-> 0, breaks |-> -1, joins |-> -1, per_assembly_stats |-> <<>>]

\* BuildAssembly.__init__
BuildAssembly(input, prtxt, bp_per_texel) ==
    [input |-> input, prtxt |-> prtxt, bp_per_texel |-> bp_per_texel,
     objs |-> <<>>, scaffolds |-> <<>>, found |-> <<>>, multi |-> <<>>,
     namer |-> ScaffoldNamer, fixes_made |-> <<>>, cuts |-> <<>>,
     fused |-> <<>>, assembly_stats |-> AssemblyStats, error |-> ""]

\* BuildAssembly.error_length, for a whole number of bp per texel
error_length(ba) == 1 + ba.bp_per_texel

\* Assembly: the rows of the scaffold with this name, <<>> if there is none
RowsByName(asm, name) ==
    LET hits == SelectSeq(asm, LAMBDA scffld: scffld.name = name)
    IN  IF hits = <<>> THEN <<>> ELSE hits[1].rows

\* FoundFragment.__init__ followed by add_scaffold
FoundFragment(fragment, id) == [fragment |-> fragment, scaffolds |-> <<id>>]

\* dict.get on found_fragments: the position of the key, 0 if absent
FoundAt(found, key) ==
    IF \E i \in 1..Len(found) : key_tuple(found[i].fragment) = key
    THEN CHOOSE i \in 1..Len(found) : key_tuple(found[i].fragment) = key
    ELSE 0

\* BuildAssembly.store_fragments_found for the scaffold at index id
RECURSIVE store_fragments_found(_, _, _)
store_fragments_found(ba, id, frags) ==
    IF frags = <<>> THEN ba
    ELSE
    LET ff == frags[1]
        at == FoundAt(ba.found, key_tuple(ff))
        ba1 == IF at # 0
               THEN [ba EXCEPT
                       !.multi = IF Contains(@, key_tuple(ff)) THEN @
                                 ELSE Append(@, key_tuple(ff)),
                       !.found[at].scaffolds = Append(@, id)]
               ELSE [ba EXCEPT !.found = Append(@, FoundFragment(ff, id))]
    IN  store_fragments_found(ba1, id, Tail(frags))

\* The body of the inner loop of find_assembly_overlaps
find_fragment_overlaps(ba, prtxt_scffld, prtxt_frag) ==
    LET found == find_overlaps(RowsByName(ba.input, prtxt_frag.name), prtxt_frag)
        id == Len(ba.objs) + 1
        lab == label_scaffold(ba.namer, found, id, prtxt_frag,
                              fragment_tags(prtxt_scffld.rows), prtxt_scffld.name)
        trimmed == trim_large_overhangs(lab[2], error_length(ba))
    IN  IF found.status = "none" THEN ba
        ELSE IF found.status # "ok" THEN [ba EXCEPT !.error = found.status]
        ELSE IF lab[1].error # ""
        THEN [ba EXCEPT !.namer = lab[1], !.objs = Append(@, lab[2]),
                        !.error = lab[1].error]
        ELSE IF trimmed.status # "ok"
        THEN [ba EXCEPT !.namer = lab[1], !.objs = Append(@, trimmed),
                        !.error = trimmed.status]
        ELSE IF trimmed.rows = <<>>
        THEN [ba EXCEPT !.namer = lab[1], !.objs = Append(@, trimmed)]
        ELSE store_fragments_found(
                 [ba EXCEPT !.namer = lab[1], !.objs = Append(@, trimmed),
                            !.scaffolds = Append(@, id)],
                 id, fragments(trimmed.rows))

\* The inner loop of find_assembly_overlaps
RECURSIVE find_scaffold_overlaps(_, _, _)
find_scaffold_overlaps(ba, prtxt_scffld, prtxt_frags) ==
    IF prtxt_frags = <<>> \/ ba.error # "" THEN ba
    ELSE find_scaffold_overlaps(
             find_fragment_overlaps(ba, prtxt_scffld, prtxt_frags[1]),
             prtxt_scffld, Tail(prtxt_frags))

\* The outer loop of find_assembly_overlaps
RECURSIVE find_assembly_overlaps_from(_, _)
find_assembly_overlaps_from(ba, prtxt_scaffolds) ==
    IF prtxt_scaffolds = <<>> \/ ba.error # "" THEN ba
    ELSE
    LET prtxt_scffld == prtxt_scaffolds[1]
        namer == make_scaffold_name(ba.namer, prtxt_scffld.name, prtxt_scffld.rows)
    IN  IF namer.error # "" THEN [ba EXCEPT !.namer = namer, !.error = namer.error]
        ELSE find_assembly_overlaps_from(
                 find_scaffold_overlaps([ba EXCEPT !.namer = namer], prtxt_scffld,
                                        fragments(prtxt_scffld.rows)),
                 Tail(prtxt_scaffolds))

\* BuildAssembly.find_assembly_overlaps
find_assembly_overlaps(ba) == find_assembly_overlaps_from(ba, ba.prtxt)

\* The premises add_overhang_premise collects for one FoundFragment
RECURSIVE premises_of(_, _, _)
premises_of(objs, fragment, ids) ==
    IF ids = <<>> THEN <<>>
    ELSE add_overhang_premise(objs, fragment, ids[1])
         \o premises_of(objs, fragment, Tail(ids))

\* OverhangResolver.premises_by_fragment_key.values() after the loops over
\* multi.values() and fnd.scaffolds
RECURSIVE premises_by_fragment_key(_, _)
premises_by_fragment_key(ba, keys) ==
    IF keys = <<>> THEN <<>>
    ELSE
    LET fnd == ba.found[FoundAt(ba.found, keys[1])]
        prem_list == premises_of(ba.objs, fnd.fragment, fnd.scaffolds)
    IN  (IF prem_list = <<>> THEN <<>> ELSE <<prem_list>>)
        \o premises_by_fragment_key(ba, Tail(keys))

\* The loop over fixes_made left out: no FoundFragment is updated
fixed_not_removed(ba, fixes) == ba

\* The loop over fixes_made in discard_overhanging_fragments
RECURSIVE remove_fixed(_, _)
remove_fixed(ba, fixes) ==
    IF fixes = <<>> \/ ba.error # "" THEN ba
    ELSE
    LET fk == key_tuple(fixes[1].fragment)
        at == FoundAt(ba.found, fk)
        left == ListRemove(ba.found[at].scaffolds, fixes[1].scaffold)
    IN  IF ~Contains(ba.multi, fk) THEN remove_fixed(ba, Tail(fixes))
        ELSE IF ~Contains(ba.found[at].scaffolds, fixes[1].scaffold)
        THEN [ba EXCEPT !.error = "ValueError"]
        ELSE remove_fixed(
                 [ba EXCEPT !.found[at].scaffolds = left,
                            !.multi = IF Len(left) <= 1 THEN ListRemove(@, fk) ELSE @],
                 Tail(fixes))

\* One pass of the while loop of discard_overhanging_fragments
discard_round(ba) ==
    LET fixed == make_fixes(ba.objs, premises_by_fragment_key(ba, ba.multi),
                            error_length(ba))
    IN  IF fixed.error # ""
        THEN [ba EXCEPT !.objs = fixed.objs, !.fixes_made = fixed.fixes_made,
                        !.error = fixed.error]
        ELSE remove_fixed([ba EXCEPT !.objs = fixed.objs,
                                     !.fixes_made = fixed.fixes_made],
                          fixed.fixes_made)

\* Fragment.abuts
abuts(a, b) == a.name = b.name /\ (a.end + 1 = b.start \/ b.end + 1 = a.start)

\* Fragment.overlaps
overlaps(a, b) == a.name = b.name /\ a.end >= b.start /\ a.start <= b.end

\* Fragment.gap_between, with None as 0: both make "if g :=" false
gap_between(a, b) ==
    LET gap_start == Min2(a.end, b.end)
        gap_end == Max2(a.start, b.start)
    IN  IF a.name = b.name /\ gap_start < gap_end THEN gap_end - gap_start - 1
        ELSE 0

\* sorted(sub_fragments, key=lambda frag: (frag.start, frag.end))
SortedFragments(frags) ==
    LET width == 1 + SeqSum([i \in 1..Len(frags) |-> Abs(frags[i].end)])
    IN  SortedByKeys(frags,
            [i \in 1..Len(frags) |-> frags[i].start * width + frags[i].end])

\* qc_sub_fragments with "if msg:" left out, so that it never raises
qc_never_raises(fragment, sub_fragments) == FALSE

\* BuildAssembly.qc_sub_fragments: TRUE when it raises ValueError
qc_sub_fragments(fragment, sub_fragments) ==
    LET srtd_frags == SortedFragments(sub_fragments)
        pairs == 1..(Len(srtd_frags) - 1)
        abut_count ==
            Cardinality({i \in pairs : abuts(srtd_frags[i], srtd_frags[i + 1])})
        overlap_count ==
            Cardinality({i \in pairs : overlaps(srtd_frags[i], srtd_frags[i + 1])})
        pairs_with_gaps ==
            {i \in pairs : gap_between(srtd_frags[i], srtd_frags[i + 1]) # 0}
        sub_frags_length ==
            SeqSum([i \in 1..Len(sub_fragments) |-> RowLength(sub_fragments[i])])
    IN  \/ RowLength(fragment) # sub_frags_length
        \/ overlap_count # 0
        \/ abut_count # Len(sub_fragments) - 1
        \/ pairs_with_gaps # {}

\* The loop of cut_fragments over ordered_scaffolds, from position i (0-based):
\* [objs, sub_fragments, error]
RECURSIVE trim_ordered(_, _, _, _)
trim_ordered(objs, frgmnt, ordered_scaffolds, i) ==
    IF i = Len(ordered_scaffolds)
    THEN [objs |-> objs, sub_fragments |-> <<>>, error |-> ""]
    ELSE
    LET id == At(ordered_scaffolds, i)
        trimmed == trim_fragment(objs[id], frgmnt, i = 0,
                                 i = Len(ordered_scaffolds) - 1)
        objs1 == [objs EXCEPT ![id] = [trimmed[1] EXCEPT !.status = "ok"]]
        rest == trim_ordered(objs1, frgmnt, ordered_scaffolds, i + 1)
    IN  IF trimmed[1].status # "ok"
        THEN [objs |-> objs1, sub_fragments |-> <<>>, error |-> trimmed[1].status]
        ELSE [rest EXCEPT !.sub_fragments = <<trimmed[2]>> \o @]

\* BuildAssembly.cut_fragments for the FoundFragment with this key
cut_fragments(ba, key) ==
    LET fnd == ba.found[FoundAt(ba.found, key)]
        frgmnt == fnd.fragment
        ordered_scaffolds ==
            SortedByKeys(fnd.scaffolds,
                [i \in 1..Len(fnd.scaffolds) |->
                    fragment_start_if_trimmed(ba.objs[fnd.scaffolds[i]], frgmnt)])
        done == trim_ordered(ba.objs, frgmnt, ordered_scaffolds, 0)
        raised == done.error = "" /\ qc_sub_fragments(frgmnt, done.sub_fragments)
    IN  IF \E i \in 1..Len(fnd.scaffolds) : ba.objs[fnd.scaffolds[i]].rows = <<>>
        THEN [ba EXCEPT !.error = "IndexError"]
        ELSE [ba EXCEPT
                !.objs = done.objs,
                !.cuts = Append(@, [fragment |-> frgmnt,
                                    sub_fragments |-> done.sub_fragments,
                                    scaffolds |-> ordered_scaffolds,
                                    raised |-> done.error # "" \/ raised]),
                !.assembly_stats.cuts =
                    IF done.error # "" \/ raised THEN @
                    ELSE @ + Len(done.sub_fragments) - 1,
                !.error = IF done.error # "" THEN done.error
                          ELSE IF raised THEN "ValueError" ELSE ""]

\* The loop of cut_remaining_overhangs over multi.values()
RECURSIVE cut_each(_, _)
cut_each(ba, keys) ==
    IF keys = <<>> \/ ba.error # "" THEN ba
    ELSE cut_each(cut_fragments(ba, keys[1]), Tail(keys))

\* BuildAssembly.cut_remaining_overhangs
cut_remaining_overhangs(ba) ==
    LET done == cut_each(ba, ba.multi)
    IN  IF done.error # "" THEN done ELSE [done EXCEPT !.multi = <<>>]

\* ScaffoldNamer.rename_unlocs_by_size then rename_haplotigs_by_size
rename_by_sizes(ba) ==
    [ba EXCEPT !.objs =
        rename_by_size(rename_lists_by_size(@, ba.namer.unloc_scaffolds),
                       ba.namer.haplotig_scaffolds)]

\* Scaffold.__init__: a Scaffold that is not an OverlapResult has no bait
Scaffold(name, rows) ==
    [status |-> "ok", bait |-> <<>>, start |-> 0, end |-> -1, rows |-> rows,
     name |-> name, tag |-> "", haplotype |-> "", rank |-> 0,
     original_name |-> "", original_tags |-> {}, chr_name |-> ""]

\* isinstance(scffld, OverlapResult)
IsOverlapResult(scffld) == scffld.bait # <<>>

\* BuildAssembly.default_gap
default_gap == Gap(200, "scaffold")

\* missing_rows without the look-up in found_fragments
missing_rows_unfiltered(found, rows, i, last_added_i) == rows

\* The rows add_missing_scaffolds_from_input collects for one input scaffold,
\* from row i (0-based); last_added_i is -1 for None
RECURSIVE missing_rows(_, _, _, _)
missing_rows(found, rows, i, last_added_i) ==
    IF i = Len(rows) THEN <<>>
    ELSE IF IsFragment(At(rows, i)) /\ FoundAt(found, key_tuple(At(rows, i))) = 0
    THEN (IF last_added_i # -1 /\ last_added_i # i - 1
          THEN IF IsGap(At(rows, i - 1)) THEN <<At(rows, i - 1)>>
               ELSE <<default_gap>>
          ELSE <<>>)
         \o <<At(rows, i)>> \o missing_rows(found, rows, i + 1, i)
    ELSE missing_rows(found, rows, i + 1, last_added_i)

\* The loop of add_missing_scaffolds_from_input over input_asm.scaffolds
RECURSIVE add_missing_from(_, _)
add_missing_from(ba, input_scaffolds) ==
    IF input_scaffolds = <<>> \/ ba.error # "" THEN ba
    ELSE
    LET scffld == input_scaffolds[1]
        rows == missing_rows(ba.found, scffld.rows, 0, -1)
        namer == make_scaffold_name(ba.namer, scffld.name, rows)
        new_scffld ==
            [Scaffold(scffld.name, rows) EXCEPT
                !.rank = 3,
                !.tag = IF namer.target_tags
                           /\ "Target" \notin fragment_tags(scffld.rows)
                        THEN "Contaminant" ELSE @,
                !.haplotype = namer.current_haplotype]
    IN  IF rows = <<>> THEN add_missing_from(ba, Tail(input_scaffolds))
        ELSE IF namer.error # ""
        THEN [ba EXCEPT !.namer = namer, !.error = namer.error]
        ELSE add_missing_from(
                 [ba EXCEPT !.namer = namer,
                            !.objs = Append(@, new_scffld),
                            !.scaffolds = Append(@, Len(ba.objs) + 1)],
                 Tail(input_scaffolds))

\* BuildAssembly.add_missing_scaffolds_from_input
add_missing_scaffolds_from_input(ba) == add_missing_from(ba, ba.input)

\* Scaffold.clone_empty: a Scaffold with the same name and labels and no rows
clone_empty(scffld) ==
    [Scaffold(scffld.name, <<>>) EXCEPT
        !.tag = scffld.tag, !.haplotype = scffld.haplotype, !.rank = scffld.rank,
        !.original_name = scffld.original_name,
        !.original_tags = scffld.original_tags]

\* Scaffold.append_scaffold, gap being <<>> for None
append_scaffold(scffld, othr_rows, gap) ==
    [scffld EXCEPT !.rows =
        (IF gap # <<>> /\ scffld.rows # <<>> THEN Append(@, gap) ELSE @)
        \o othr_rows]

\* The loop of scaffolds_fused_by_name; hap_name_scaffold is a list in
\* insertion order
RECURSIVE fuse_from(_, _, _)
fuse_from(objs, ids, hap_name_scaffold) ==
    IF ids = <<>> THEN hap_name_scaffold
    ELSE
    LET scffld == objs[ids[1]]
        same(b) == b.haplotype = scffld.haplotype /\ b.name = scffld.name
        have == \E i \in 1..Len(hap_name_scaffold) : same(hap_name_scaffold[i])
        with_new == IF have THEN hap_name_scaffold
                    ELSE Append(hap_name_scaffold, clone_empty(scffld))
        at == CHOOSE i \in 1..Len(with_new) : same(with_new[i])
        fused == IF IsOverlapResult(scffld)
                 THEN append_scaffold(with_new[at], to_scaffold(scffld), default_gap)
                 ELSE append_scaffold(with_new[at], scffld.rows, <<>>)
    IN  IF scffld.rows = <<>> THEN fuse_from(objs, Tail(ids), hap_name_scaffold)
        ELSE fuse_from(objs, Tail(ids), [with_new EXCEPT ![at] = fused])

\* BuildAssembly.scaffolds_fused_by_name
scaffolds_fused_by_name(ba) == fuse_from(ba.objs, ba.scaffolds, <<>>)

----------------------------------------------------------------------------
(* AssemblyStats: breaks and joins                                          *)

\* Assembly.fragment_junction_set: the junctions of a list of scaffolds
asm_fragment_junction_set(scaffolds) ==
    UNION {fragment_junction_set(scaffolds[i].rows) : i \in 1..Len(scaffolds)}

\* re.match(r"([A-Za-z]+\d+)_", first.name) on the first fragment's name,
\* lower-cased: "" (None) for a name with no "_" after letters and digits
AsmPrefix(name) ==
    CASE name = "hap1_s_1" -> "hap1"
      [] name = "hap2_s_1" -> "hap2"
      [] OTHER -> ""

\* Assembly.fragment_junctions_by_asm_prefix: a list of <<prefix, junctions>>
RECURSIVE prefix_junctions_from(_, _)
prefix_junctions_from(scaffolds, prefix_junctions) ==
    IF scaffolds = <<>> THEN prefix_junctions
    ELSE
    LET scffld == Head(scaffolds)
        frags == fragments(scffld.rows)
        asm_name == AsmPrefix(frags[1].name)
        juncs == fragment_junction_set(scffld.rows)
        have == \E i \in 1..Len(prefix_junctions) : prefix_junctions[i][1] = asm_name
    IN  IF frags = <<>> THEN prefix_junctions_from(Tail(scaffolds), prefix_junctions)
        ELSE prefix_junctions_from(Tail(scaffolds),
                 IF have
                 THEN [i \in 1..Len(prefix_junctions) |->
                          IF prefix_junctions[i][1] = asm_name
                          THEN <<asm_name, prefix_junctions[i][2] \cup juncs>>
                          ELSE prefix_junctions[i]]
                 ELSE Append(prefix_junctions, <<asm_name, juncs>>))

fragment_junctions_by_asm_prefix(scaffolds) == prefix_junctions_from(scaffolds, <<>>)

\* The key of the output assembly a fused scaffold is added to: its tag, else
\* its haplotype, else "" (None)
asm_key(scffld) ==
    IF scffld.tag # "" THEN scffld.tag
    ELSE IF scffld.haplotype # "" THEN scffld.haplotype
    ELSE ""

\* The keys of the output assemblies in insertion order
RECURSIVE asm_keys(_, _)
asm_keys(scaffolds, keys) ==
    IF scaffolds = <<>> THEN keys
    ELSE asm_keys(Tail(scaffolds),
             IF Contains(keys, asm_key(Head(scaffolds))) THEN keys
             ELSE Append(keys, asm_key(Head(scaffolds))))

\* The output assemblies: a list of <<key, scaffolds>>
output_assemblies(fused) ==
    LET keys == asm_keys(fused, <<>>)
    IN  [k \in 1..Len(keys) |->
            <<keys[k], SelectSeq(fused, LAMBDA scffld: asm_key(scffld) = keys[k])>>]

\* AssemblyStats.__build_junction_stats
build_junction_stats(stats, input, assemblies) ==
    LET input_junction_sets == fragment_junctions_by_asm_prefix(input)
        input_set == UNION {input_junction_sets[i][2] : i \in 1..Len(input_junction_sets)}
        junc_set(k) == asm_fragment_junction_set(assemblies[k][2])
        output_set == UNION {junc_set(k) : k \in 1..Len(assemblies)}
        total_breaks == input_set \ output_set
        total_joins == output_set \ input_set
        junc_key(k) == Lower(assemblies[k][1])
        input_asm_set(k) ==
            LET hits == SelectSeq(input_junction_sets, LAMBDA kv: kv[1] = junc_key(k))
            IN  IF hits = <<>> THEN {} ELSE hits[1][2]
        with_stats == SelectSeq([k \in 1..Len(assemblies) |-> k],
                                LAMBDA k: input_asm_set(k) # {})
    IN  [stats EXCEPT
            !.breaks = Cardinality(total_breaks),
            !.joins = Cardinality(total_joins),
            !.per_assembly_stats =
                [n \in 1..Len(with_stats) |->
                    LET k == with_stats[n]
                    IN  [name |-> IF assemblies[k][1] = "" THEN "Primary"
                                  ELSE assemblies[k][1],
                         manual_breaks |->
                            Cardinality((input_asm_set(k) \ junc_set(k)) \cap total_breaks),
                         manual_joins |->
                            Cardinality((junc_set(k) \ input_asm_set(k)) \cap total_joins)]]]

----------------------------------------------------------------------------
(* Enumerated curation cases: [input, prtxt, bp_per_texel]                 *)

\* Input scaffolds that start and end with a Fragment, every Gap of length 1
\* and every Fragment on the same strand
BuildShapes ==
    UNION {{sh \in ShapesOf(n, 1..MaxFragLen, {sd}) :
               /\ sh[1][1] = "F" /\ sh[n][1] = "F"
               /\ \A i \in 1..n : sh[i][1] = "G" => sh[i][2] = 1} :
           n \in 1..MaxBuildRows, sd \in {1, -1}}

\* k curated intervals laid end to end over s..len, each starting steps[j]
\* after the end of the one before for some j: 1 abuts, less overlaps, more
\* leaves a hole
RECURSIVE NearTilings(_, _, _, _)
NearTilings(k, s, len, steps) ==
    IF k = 1 THEN {<<<<s, len>>>>}
    ELSE UNION {{<<<<s, e>>>> \o rest :
                    rest \in UNION {NearTilings(k - 1, e + d, len, steps) :
                                       d \in {d \in steps : e + d >= 1 /\ e + d <= len}}} :
                e \in s..len}

\* How the curated fragments are grouped and painted
CurationModes == {"unpainted", "painted", "together"}

\* The curated assembly for these intervals on scaffold name
Curated(name, spans, mode) ==
    LET tags == IF mode = "unpainted" THEN {} ELSE {"Painted"}
        bait(i) == Fragment(name, spans[i][1], spans[i][2], 1, tags)
    IN  IF mode = "together"
        THEN <<[name |-> "R1", rows |-> [i \in 1..Len(spans) |-> bait(i)]]>>
        ELSE [i \in 1..Len(spans) |->
                [name |-> "R" \o ToString(i), rows |-> <<bait(i)>>]]

OverhangCases ==
    UNION {
        LET rows == MkRows(sh, "s1")
            len == ScaffoldLength(rows)
        IN  {[input |-> <<[name |-> "s1", rows |-> rows]>>,
              prtxt |-> Curated("s1", spans, mode),
              bp_per_texel |-> bp] :
                spans \in NearTilings(2, 1, len, {-1, 0, 1, 2}),
                mode \in CurationModes,
                bp \in 1..MaxBpPerTexel}
            \cup
            {[input |-> <<[name |-> "s1", rows |-> rows]>>,
              prtxt |-> Curated("s1", spans, "unpainted"),
              bp_per_texel |-> bp] :
                spans \in UNION {NearTilings(k, 1, len, {0, 1}) : k \in 3..MaxBaits},
                bp \in 1..MaxBpPerTexel} :
        sh \in BuildShapes}

\* Scenario: one fragment of 20000 bp, two curated fragments that overlap
\* by 1001 bp or that abut, 100 bp per texel
SplitCase(second_start) ==
    [input |-> <<[name |-> "s1", rows |-> <<Fragment("s1", 1, 20000, 1, {})>>]>>,
     prtxt |-> <<[name |-> "R1", rows |-> <<Fragment("s1", 1, 12000, 1, {})>>],
                 [name |-> "R2",
                  rows |-> <<Fragment("s1", second_start, 20000, 1, {})>>]>>,
     bp_per_texel |-> 100]

\* An input scaffold of one fragment, and the curated fragment that is all of it
Whole(name, len) == [name |-> name, rows |-> <<Fragment(name, 1, len, 1, {})>>]
WholeBait(name, len, tags) == Fragment(name, 1, len, 1, tags)

\* A chromosome c with unlocalised scaffolds u1, u2, u3: all in one curated
\* scaffold, or u3 in a second curated scaffold with chromosome d
UnlocCase(len1, len2, len3, split, chr2, hap1, hap2, bp) ==
    LET painted1 == {"Painted", "X"} \cup hap1
        painted2 == {"Painted", chr2} \cup hap2
        unloc(name, len, tags) == WholeBait(name, len, tags \cup {"Unloc"})
    IN  [input |-> <<Whole("c", 2), Whole("u1", len1), Whole("u2", len2),
                     Whole("u3", len3), Whole("d", 2)>>,
         prtxt |->
            IF split
            THEN <<[name |-> "R1",
                    rows |-> <<WholeBait("c", 2, painted1), unloc("u1", len1, painted1),
                               unloc("u2", len2, painted1)>>],
                   [name |-> "R2",
                    rows |-> <<WholeBait("d", 2, painted2),
                               unloc("u3", len3, painted2)>>]>>
            ELSE <<[name |-> "R1",
                    rows |-> <<WholeBait("c", 2, painted1), unloc("u1", len1, painted1),
                               unloc("u2", len2, painted1),
                               unloc("u3", len3, painted1)>>],
                   [name |-> "R2", rows |-> <<WholeBait("d", 2, painted2)>>]>>,
         bp_per_texel |-> bp]

UnlocCases ==
    {UnlocCase(len1, len2, len3, split, chr2, hap[1], hap[2], 1) :
        len1 \in 1..MaxUnlocLen, len2 \in 1..MaxUnlocLen, len3 \in 1..MaxUnlocLen,
        split \in BOOLEAN, chr2 \in {"X", "Y"},
        hap \in {<<{}, {}>>, <<{"Hap1"}, {"Hap2"}>>}}
    \cup {UnlocCase(50000, 200000, 10000, FALSE, "Y", {}, {}, 100)}

\* The tags a curated fragment carries in the tagging cases
TagMenu ==
    {{}, {"Contaminant"}, {"FalseDuplicate"}, {"Haplotig"}, {"Target"}, {"Painted"},
     {"Painted", "Target"}}

\* Input scaffolds c (two fragments around a Gap), d and m; curated scaffold
\* R1 holds the two fragments of c, R2 holds d, and m is not in the map
TagCase(tags1, tags2, tags3, input_tags) ==
    [input |-> <<[name |-> "c",
                  rows |-> <<Fragment("c", 1, 2, 1, {}), Gap(1, "scaffold"),
                             Fragment("c", 4, 5, 1, {})>>],
                 Whole("d", 2),
                 [name |-> "m", rows |-> <<Fragment("m", 1, 2, 1, input_tags)>>]>>,
     prtxt |-> <<[name |-> "R1",
                  rows |-> <<Fragment("c", 1, 2, 1, tags1),
                             Fragment("c", 4, 5, 1, tags2)>>],
                 [name |-> "R2", rows |-> <<WholeBait("d", 2, tags3)>>]>>,
     bp_per_texel |-> 1]

TagCases ==
    {TagCase(tags1, tags2, tags3, input_tags) :
        tags1 \in TagMenu, tags2 \in TagMenu, tags3 \in TagMenu,
        input_tags \in {{}, {"Target"}}}

\* Input scaffolds of fragments and Gaps of length 1 that start and end
\* with a Fragment
MissingShapes ==
    UNION {{sh \in ShapesOf(n, {1}, {1}) : sh[1][1] = "F" /\ sh[n][1] = "F"} :
           n \in 1..MaxMissingRows}

\* One input scaffold; the curated scaffold R1 holds exactly the fragments
\* at the rows in hit
MissingCase(shape, hit) ==
    LET rows == MkRows(shape, "s1")
        hits == SelectSeq([i \in 1..Len(rows) |-> i], LAMBDA i : i \in hit)
    IN  [input |-> <<[name |-> "s1", rows |-> rows]>>,
         prtxt |-> <<[name |-> "R1",
                      rows |-> [k \in 1..Len(hits) |->
                                  [rows[hits[k]] EXCEPT !.tags = {"Painted"}]]]>>,
         bp_per_texel |-> 1]

MissingCases ==
    UNION {{MissingCase(sh, hit) :
               hit \in (SUBSET {i \in 1..Len(sh) : sh[i][1] = "F"}) \ {{}}} :
           sh \in MissingShapes}

BuildCases ==
    OverhangCases \cup {SplitCase(11000), SplitCase(12001)} \cup UnlocCases
        \cup TagCases \cup MissingCases

----------------------------------------------------------------------------
(* The pipeline: remap_to_input_assembly, then scaffolds_fused_by_name     *)

BuildInit ==
    /\ bpc = "find"
    /\ \E case \in BuildCases :
         build = BuildAssembly(case.input, case.prtxt, case.bp_per_texel)

FindAssemblyOverlaps ==
    /\ bpc = "find"
    /\ build' = find_assembly_overlaps(build)
    /\ bpc' = IF build'.error # "" THEN "raised"
              ELSE IF build'.multi = <<>> THEN "cut" ELSE "discard"

\* One pass of the while loop of discard_overhanging_fragments
DiscardOverhangingFragments ==
    /\ bpc = "discard"
    /\ build' = discard_round(build)
    /\ bpc' = IF build'.error # "" THEN "raised"
              ELSE IF build'.fixes_made = <<>> \/ build'.multi = <<>> THEN "cut"
              ELSE "discard"

CutRemainingOverhangs ==
    /\ bpc = "cut"
    /\ build' = cut_remaining_overhangs(build)
    /\ bpc' = IF build'.error # "" THEN "raised" ELSE "rename"

RenameBySize ==
    /\ bpc = "rename"
    /\ build' = rename_by_sizes(build)
    /\ bpc' = "missing"

AddMissingScaffoldsFromInput ==
    /\ bpc = "missing"
    /\ build' = add_missing_scaffolds_from_input(build)
    /\ bpc' = IF build'.error # "" THEN "raised" ELSE "fuse"

ScaffoldsFusedByName ==
    /\ bpc = "fuse"
    /\ build' = [build EXCEPT !.fused = scaffolds_fused_by_name(build)]
    /\ bpc' = "done"

\* self.assembly_stats.make_stats(assemblies): the junction statistics
BuildJunctionStats ==
    /\ bpc = "done"
    /\ build' = [build EXCEPT !.assembly_stats =
                     build_junction_stats(@, build.input, output_assemblies(build.fused))]
    /\ bpc' = "stats"

SpecBuildInit == BuildInit /\ FIdle /\ JIdle /\ OIdle

SpecBuildNext ==
    /\ \/ FindAssemblyOverlaps
       \/ DiscardOverhangingFragments
       \/ CutRemainingOverhangs
       \/ RenameBySize
       \/ AddMissingScaffoldsFromInput
       \/ ScaffoldsFusedByName
       \/ BuildJunctionStats
    /\ UNCHANGED <<fvars, jvars, ovars>>

SpecBuild == SpecBuildInit /\ [][SpecBuildNext]_vars

----------------------------------------------------------------------------
(* Properties of overhang resolution and cutting                           *)

\* The OverlapResults of self.scaffolds
Results == {build.objs[build.scaffolds[i]] : i \in 1..Len(build.scaffolds)}

Fixes == {build.fixes_made[i] : i \in 1..Len(build.fixes_made)}

\* C2: between and after the rounds of discard_overhanging_fragments every
\* fragment recorded in found_fragments is still a row of some OverlapResult
\* of the assembly; every fix discarded a fragment that another OverlapResult
\* held too; and no two fixes of a round are for the same fragment key.
C2_NoFoundSequenceLost ==
    /\ bpc \in {"discard", "cut"} =>
         \A i \in 1..Len(build.found) :
            \E r \in Results : Contains(r.rows, build.found[i].fragment)
    /\ \A fix \in Fixes : fix.holders >= 2
    /\ \A i, j \in 1..Len(build.fixes_made) :
          i # j => key_tuple(build.fixes_made[i].fragment)
                   # key_tuple(build.fixes_made[j].fragment)

\* Overhang resolution has ended after a round that made a fix
C2_Witness == bpc = "cut" /\ build.fixes_made # <<>>

\* The fragments of the input assembly
InputFragments ==
    UNION {{build.input[i].rows[j] : j \in {j \in 1..Len(build.input[i].rows) :
                                              IsFragment(build.input[i].rows[j])}} :
           i \in 1..Len(build.input)}

\* Where the fragments of the fused scaffolds are: <<scaffold, row>>
OutputPlaces ==
    UNION {{<<i, j>> : j \in {j \in 1..Len(build.fused[i].rows) :
                                IsFragment(build.fused[i].rows[j])}} :
           i \in 1..Len(build.fused)}

OutputAt(place) == build.fused[place[1]].rows[place[2]]

Inside(frag, whole) ==
    frag.name = whole.name /\ whole.start <= frag.start /\ frag.end <= whole.end

\* The total length of the output fragments at these places
RECURSIVE PlacesLength(_)
PlacesLength(places) ==
    IF places = {} THEN 0
    ELSE LET place == CHOOSE place \in places : TRUE
         IN  RowLength(OutputAt(place)) + PlacesLength(places \ {place})

\* C3: when the pipeline and the fusing have completed, every output fragment
\* lies inside an input fragment of the same name, and the output fragments
\* inside one input fragment do not overlap each other and are together no
\* longer than it.
C3_OutputInsideInputAndDisjoint ==
    bpc = "done" =>
        /\ \A place \in OutputPlaces :
              \E whole \in InputFragments : Inside(OutputAt(place), whole)
        /\ \A whole \in InputFragments :
              LET within == {place \in OutputPlaces : Inside(OutputAt(place), whole)}
              IN  /\ \A p, q \in within :
                        p # q => ~overlaps(OutputAt(p), OutputAt(q))
                  /\ PlacesLength(within) <= RowLength(whole)

\* The output holds two pieces of one input fragment, made by a cut
C3_Witness ==
    /\ bpc = "done"
    /\ build.cuts # <<>>
    /\ \E whole \in InputFragments :
          Cardinality({place \in OutputPlaces : Inside(OutputAt(place), whole)}) >= 2

\* The sub_fragments are a partition of the fragment into an abutting chain
Partitions(fragment, sub_fragments) ==
    LET srtd == SortedFragments(sub_fragments)
        n == Len(sub_fragments)
    IN  /\ SeqSum([i \in 1..n |-> RowLength(sub_fragments[i])]) = RowLength(fragment)
        /\ \A i, j \in 1..n : i # j => ~overlaps(sub_fragments[i], sub_fragments[j])
        /\ \A i \in 1..n - 1 :
              /\ srtd[i].end + 1 = srtd[i + 1].start
              /\ gap_between(srtd[i], srtd[i + 1]) = 0

\* C4: every call of cut_fragments either raised or installed one
\* sub-fragment in each OverlapResult of the fragment, and those sub-fragments
\* sum to the fragment's length, do not overlap pairwise, and in start order
\* each abuts the next with no gap.
C4_CutRaisesOrPartitions ==
    \A i \in 1..Len(build.cuts) :
        LET cut == build.cuts[i]
        IN  \/ cut.raised
            \/ /\ Len(cut.sub_fragments) = Len(cut.scaffolds)
               /\ Len(cut.sub_fragments) >= 2
               /\ \A k \in 1..Len(cut.scaffolds) :
                     Contains(build.objs[cut.scaffolds[k]].rows, cut.sub_fragments[k])
               /\ Partitions(cut.fragment, cut.sub_fragments)

\* A fragment shared by three OverlapResults was cut without raising
C4_Witness ==
    \E i \in 1..Len(build.cuts) :
        ~build.cuts[i].raised /\ Len(build.cuts[i].sub_fragments) = 3

\* The run is the scenario of one 20000 bp fragment under two curated
\* fragments, the second starting at second_start
SplitRun(second_start) ==
    /\ build.input = SplitCase(second_start).input
    /\ build.prtxt = SplitCase(second_start).prtxt

\* The rows of the OverlapResult made for curated scaffold original_name
RowsOf(original_name) ==
    (CHOOSE r \in Results : r.original_name = original_name).rows

CutPiece(start, end) == Fragment("s1", start, end, 1, {"Cut"})

AfterCut == bpc \notin {"find", "discard", "cut"}

\* C5: with curated fragments s1:1-12000 and s1:11000-20000 over the single
\* fragment s1:1-20000 at 100 bp per texel, overhang resolution discards
\* neither row; cut_fragments makes s1:1-12000 for R1 and s1:11000-20000 for
\* R2, both tagged Cut, and qc_sub_fragments raises ValueError.  With the
\* second curated fragment s1:12001-20000 the cut completes, R1 holding
\* s1:1-12000 and R2 holding s1:12001-20000, both tagged Cut.
C5_SplitOfOverlappingBaitsRaises ==
    /\ SplitRun(11000) =>
         /\ build.fixes_made = <<>>
         /\ bpc = "cut" =>
               \A r \in Results : r.rows = <<Fragment("s1", 1, 20000, 1, {})>>
         /\ AfterCut =>
               /\ bpc = "raised" /\ build.error = "ValueError"
               /\ build.cuts[1].raised
               /\ build.cuts[1].sub_fragments
                     = <<CutPiece(1, 12000), CutPiece(11000, 20000)>>
               /\ RowsOf("R1") = <<CutPiece(1, 12000)>>
               /\ RowsOf("R2") = <<CutPiece(11000, 20000)>>
    /\ SplitRun(12001) =>
         /\ build.fixes_made = <<>>
         /\ bpc # "raised"
         /\ AfterCut =>
               /\ RowsOf("R1") = <<CutPiece(1, 12000)>>
               /\ RowsOf("R2") = <<CutPiece(12001, 20000)>>

\* The cut of the overlapping curated fragments has raised
C5_Witness == SplitRun(11000) /\ bpc = "raised" /\ build.cuts # <<>>

\* C5 as stated: with curated fragments s1:1-12000 and s1:11000-20000 no row
\* is discarded, the cut completes, R1 holds s1:1-12000 and R2 holds
\* s1:12001-20000, both tagged Cut.
C5_SplitOfOverlappingBaitsCompletes ==
    SplitRun(11000) =>
        /\ build.fixes_made = <<>>
        /\ bpc # "raised"
        /\ AfterCut =>
              /\ RowsOf("R1") = <<CutPiece(1, 12000)>>
              /\ RowsOf("R2") = <<CutPiece(12001, 20000)>>

\* C7: every premise make_fixes applies under the best/next rule leaves the
\* overhang of the end it discarded from strictly smaller in absolute value.
C7_BestRuleReducesOverhang ==
    \A fix \in Fixes :
        fix.rule = "best" => Abs(fix.overhang_after) < Abs(fix.overhang_before)

\* A premise was applied under the best/next rule
C7_Witness ==
    \E fix \in Fixes : fix.rule = "best" /\ fix.overhang_before > 0

\* C7 as stated: every premise make_fixes applies, under either rule, leaves
\* the overhang strictly smaller in absolute value.
C7_EveryFixReducesOverhang ==
    \A fix \in Fixes : Abs(fix.overhang_after) < Abs(fix.overhang_before)

\* C8: the best/next rule of make_fixes never applies a premise to an
\* OverlapResult that has exactly one row.
C8_BestRuleKeepsOnlyRow ==
    \A fix \in Fixes : fix.rule = "best" => fix.rows_before >= 2

\* The premise lists of the round about to run
PremiseLists == premises_by_fragment_key(build, build.multi)

\* The best/next rule is about to weigh a list whose best premise is on a
\* single-row OverlapResult and would be applied but for the row count
C8_Witness ==
    /\ bpc = "discard"
    /\ \E i \in 1..Len(PremiseLists) :
          LET prem_list == PremiseLists[i]
              err_length == error_length(build)
              bst == SortedByKeys(prem_list,
                         [k \in 1..Len(prem_list) |->
                             overhang_error_delta_if_applied(build.objs, prem_list[k])])[1]
          IN  /\ Len(prem_list) > 2
                 \/ /\ Len(prem_list) = 2
                    /\ \E k \in 1..2 :
                          bait_overlap(build.objs, prem_list[k]) >= err_length
              /\ Len(build.objs[bst.scaffold].rows) = 1
              /\ improves_single_row(build.objs, bst, err_length)

\* C8 as stated: no premise is applied to an OverlapResult with exactly one
\* row under any rule, and no OverlapResult is left with zero rows.
C8_NoFixOnOnlyRow ==
    /\ \A fix \in Fixes : fix.rows_before # 1
    /\ \A r \in Results : r.rows # <<>>

----------------------------------------------------------------------------
(* Properties of unloc naming                                              *)

\* The lists of unloc scaffolds, one for each make_scaffold_name call
UnlocLists == build.namer.unloc_scaffolds

\* The indices of all the unloc scaffolds
UnlocIds ==
    UNION {{UnlocLists[l][i] : i \in 1..Len(UnlocLists[l])} : l \in 1..Len(UnlocLists)}

Renamed == bpc \in {"missing", "fuse", "done"}

\* The unloc scaffolds of one list are named <chr>_unloc_1 .. _n, a larger
\* number never going with a longer scaffold
NamedBySize(list) ==
    LET n == Len(list)
        chr == build.objs[list[1]].chr_name
        nth(k) == chr \o "_unloc_" \o ToString(k)
    IN  n > 0 =>
        /\ {build.objs[list[i]].name : i \in 1..n} = {nth(k) : k \in 1..n}
        /\ \A i, j \in 1..n : \A k, m \in 1..n :
              (/\ build.objs[list[i]].name = nth(k)
               /\ build.objs[list[j]].name = nth(m)
               /\ k < m)
              => length(build.objs[list[i]]) >= length(build.objs[list[j]])

\* The name of the OverlapResult made for the curated fragment on this input
NameFor(input_name) ==
    (CHOOSE r \in Results : r.bait.name = input_name).name

UnlocScenario ==
    build.input = UnlocCase(50000, 200000, 10000, FALSE, "Y", {}, {}, 100).input

C10_NamesAfterRename ==
    Renamed =>
        /\ \A l \in 1..Len(UnlocLists) : NamedBySize(UnlocLists[l])
        /\ UnlocScenario =>
              /\ NameFor("u1") = "X_unloc_2"
              /\ NameFor("u2") = "X_unloc_1"
              /\ NameFor("u3") = "X_unloc_3"
              /\ NameFor("c") = "X"

\* Renaming by size changes names only, of unloc and haplotig scaffolds only,
\* and each list keeps the names it had
C10_RenamePermutes ==
    bpc = "rename" =>
        /\ Len(build'.objs) = Len(build.objs)
        /\ \A id \in 1..Len(build.objs) :
              /\ [build'.objs[id] EXCEPT !.name = ""] = [build.objs[id] EXCEPT !.name = ""]
              /\ id \notin UnlocIds
                     \cup {build.namer.haplotig_scaffolds[i] :
                             i \in 1..Len(build.namer.haplotig_scaffolds)}
                 => build'.objs[id] = build.objs[id]
        /\ \A l \in 1..Len(UnlocLists) :
              {build'.objs[UnlocLists[l][i]].name : i \in 1..Len(UnlocLists[l])}
              = {build.objs[UnlocLists[l][i]].name : i \in 1..Len(UnlocLists[l])}

\* C10: after the renaming by size, the unloc scaffolds of each curated
\* scaffold, the last one or not, carry the distinct names <chr>_unloc_1 ..
\* <chr>_unloc_n in order of non-increasing length; the numbering starts again
\* at 1 for each curated scaffold; renaming permutes the names of each list
\* and changes nothing else.  Unlocs of 50000, 200000 and 10000 in the curated
\* scaffold of X are named X_unloc_2, X_unloc_1 and X_unloc_3.
C10_UnlocsNamedBySizePerScaffold ==
    [](C10_NamesAfterRename) /\ [][C10_RenamePermutes]_vars

\* The unlocs of a curated scaffold that is not the last were renamed out of
\* the order they were generated in
C10_Witness ==
    /\ bpc = "missing"
    /\ Len(UnlocLists) >= 2
    /\ Len(UnlocLists[1]) >= 2
    /\ build.objs[UnlocLists[1][1]].name
          # build.objs[UnlocLists[1][1]].chr_name \o "_unloc_1"

\* C10 as stated: after the renaming the unloc scaffolds generated for one
\* chromosome name carry distinct names.
C10_DistinctPerChromosomeName ==
    Renamed =>
        \A i, j \in UnlocIds :
            (i # j /\ build.objs[i].chr_name = build.objs[j].chr_name)
            => build.objs[i].name # build.objs[j].name



-----------------------------------------------------------------------------
(* Properties of the junction statistics                                   *)

\* Junctions of a scaffold: one for each pair of fragments with nothing but
\* Gaps between them
JunctionsOf(rows) ==
    {junction_tuple(rows[i], rows[j]) :
        <<i, j>> \in {p \in (1..Len(rows)) \X (1..Len(rows)) :
                        /\ p[1] < p[2]
                        /\ IsFragment(rows[p[1]]) /\ IsFragment(rows[p[2]])
                        /\ \A k \in p[1] + 1..p[2] - 1 : IsGap(rows[k])}}

J_in == UNION {JunctionsOf(build.input[i].rows) : i \in 1..Len(build.input)}

J_out == UNION {JunctionsOf(build.fused[i].rows) : i \in 1..Len(build.fused)}

\* Scenario 2 with the curated fragments s1:1-12000 and s1:12001-20000, the
\* two pieces the cut of s1:1-20000 leaves
CutInTwo ==
    /\ build.input = SplitCase(12001).input
    /\ build.prtxt = SplitCase(12001).prtxt

-----------------------------------------------------------------------------
(* ChrGroup and ChrNamer: grouping and numbering the autosomes.  A name is  *)
(* a sequence of pieces; haplotype None is ""; a ChrGroup's data is a list *)
(* in haplotypes_seen order of lists of <<original_name, scaffolds>>, the  *)
(* scaffolds being positions in ChrNamer.scaffolds.                        *)

MaxChrScaffolds == 5
MaxChrLength == 2

\* ChrNamer.__init__
ChrNamer(chr_prefix) ==
    [chr_prefix |-> chr_prefix, scaffolds |-> <<>>, haplotypes_seen |-> <<>>,
     groups |-> <<>>, error |-> ""]

\* Position of a haplotype in haplotypes_seen
HapIndex(haps, hap) == CHOOSE i \in 1..Len(haps) : haps[i] = hap

\* ChrNamer.add_scaffold
add_scaffold(cn, haplotype, scffld) ==
    [cn EXCEPT
        !.haplotypes_seen = IF Contains(@, haplotype) THEN @ ELSE Append(@, haplotype),
        !.scaffolds = Append(@, [haplotype |-> haplotype, scffld |-> scffld])]

\* ChrGroup.__init__
ChrGroup(haplotypes) == [h \in 1..Len(haplotypes) |-> <<>>]

\* ChrGroup.add_scaffold_to_haplotype
add_scaffold_to_haplotype(grp, h, orig, idx) ==
    LET hap_set == grp[h]
    IN  IF \E k \in 1..Len(hap_set) : hap_set[k][1] = orig
        THEN [grp EXCEPT ![h] =
                 [k \in 1..Len(hap_set) |->
                     IF hap_set[k][1] = orig
                     THEN <<orig, Append(hap_set[k][2], idx)>>
                     ELSE hap_set[k]]]
        ELSE [grp EXCEPT ![h] = Append(hap_set, <<orig, <<idx>>>>)]

\* ChrGroup.original_tags_of_haplotype_scaffold
original_tags_of_haplotype_scaffold(cn, grp, h, scffld_name) ==
    LET hap_set == grp[h]
        k == CHOOSE k \in 1..Len(hap_set) : hap_set[k][1] = scffld_name
    IN  cn.scaffolds[hap_set[k][2][1]].scffld.original_tags

\* ChrGroup.length_of_first_haplotype
length_of_first_haplotype(cn, grp) ==
    LET first == grp[1]
    IN  SeqSum([k \in 1..Len(first) |->
            SeqSum([j \in 1..Len(first[k][2]) |->
                cn.scaffolds[first[k][2][j]].scffld.fragments_length])])

\* multi_chr_list with a letter for a single chromosome too
multi_chr_list_lettered(chr_name, multi_count) ==
    [k \in 1..multi_count |->
        <<chr_name, <<"A", "B", "C", "D", "E", "F">>[k]>>]

\* ChrGroup.multi_chr_list
multi_chr_list(chr_name, multi_count) ==
    IF multi_count = 1 THEN <<<<chr_name>>>>
    ELSE [k \in 1..multi_count |->
             <<chr_name, <<"A", "B", "C", "D", "E", "F">>[k]>>]

\* ChrGroup.max_hap_set_count
max_hap_set_count(grp) == SetMax({Len(grp[h]) : h \in 1..Len(grp)})

\* ChrNamer.check_for_painted_scaffolds_missing_haplotype_tag: TRUE = raises
check_for_painted_scaffolds_missing_haplotype_tag(cn) ==
    Len(cn.haplotypes_seen) > 1 /\ Contains(cn.haplotypes_seen, "")


\* ChrNamer.build_groups, the loop from scaffold k on: st holds groups (the
\* current group is the last), last_haplotype and last_orig
RECURSIVE build_groups_from(_, _, _)
build_groups_from(cn, k, st) ==
    IF k > Len(cn.scaffolds) THEN st
    ELSE
    LET haplotype == cn.scaffolds[k].haplotype
        orig == cn.scaffolds[k].scffld.original_name
        h == HapIndex(cn.haplotypes_seen, haplotype)
        group == st.groups[Len(st.groups)]
        other_haplotypes == Len(cn.haplotypes_seen) > 1
        new_group ==
            /\ group[h] # <<>>
            /\ IF other_haplotypes
               THEN \/ haplotype # st.last_haplotype
                    \/ /\ orig # st.last_orig
                       /\ "Singleton" \in
                            original_tags_of_haplotype_scaffold(cn, group, h, st.last_orig)
               ELSE orig # st.last_orig
        groups == IF new_group
                  THEN Append(st.groups, ChrGroup(cn.haplotypes_seen))
                  ELSE st.groups
        n == Len(groups)
    IN  build_groups_from(cn, k + 1,
            [groups |-> [groups EXCEPT ![n] =
                            add_scaffold_to_haplotype(groups[n], h, orig, k)],
             last_haplotype |-> haplotype, last_orig |-> orig])

\* check_groups that also marks every further original_name of the first
\* haplotype in a group as an error
check_groups_strict(cn, groups) ==
    Cardinality({g \in 1..Len(groups) : groups[g][1] = <<>>})
    + SeqSum([g \in 1..Len(groups) |-> Max2(Len(groups[g][1]) - 1, 0)])

\* ChrNamer.check_groups: the number of errors marked in the table
check_groups(cn, groups) ==
    Cardinality({g \in 1..Len(groups) : groups[g][1] = <<>>})

\* ChrNamer.build_groups
build_groups(cn) ==
    IF check_for_painted_scaffolds_missing_haplotype_tag(cn)
    THEN [cn EXCEPT !.error = "TaggingError"]
    ELSE IF \E k \in 1..Len(cn.scaffolds) : cn.scaffolds[k].scffld.original_name = ""
    THEN [cn EXCEPT !.error = "ChrNamerUsageError"]
    ELSE
    LET st == build_groups_from(cn, 1,
                  [groups |-> <<ChrGroup(cn.haplotypes_seen)>>,
                   last_haplotype |-> "", last_orig |-> ""])
    IN  IF check_groups(cn, st.groups) > 0
        THEN [cn EXCEPT !.groups = st.groups, !.error = "ChrNamerError"]
        ELSE [cn EXCEPT !.groups = st.groups]

\* str.replace on a name: every piece equal to old becomes the pieces of new
RECURSIVE NameReplace(_, _, _)
NameReplace(name, old, new) ==
    IF name = <<>> THEN <<>>
    ELSE (IF Head(name) = old THEN new ELSE <<Head(name)>>)
         \o NameReplace(Tail(name), old, new)

\* ChrGroup.name_chromosome: the scaffolds after naming this group chr_n
name_chromosome(cn, scaffolds, grp, chr_n) ==
    [idx \in 1..Len(scaffolds) |->
        IF \E h \in 1..Len(grp) : \E k \in 1..Len(grp[h]) :
               Contains(grp[h][k][2], idx)
        THEN LET h == CHOOSE h \in 1..Len(grp) : \E k \in 1..Len(grp[h]) :
                          Contains(grp[h][k][2], idx)
                 k == CHOOSE k \in 1..Len(grp[h]) : Contains(grp[h][k][2], idx)
                 hap_name == cn.haplotypes_seen[h]
                 hap_suffix == IF hap_name = "" \/ hap_name = "Primary"
                               THEN <<>> ELSE <<"_", hap_name>>
                 this_chr == multi_chr_list(chr_n, Len(grp[h]))[k]
                 scffld == scaffolds[idx].scffld
             IN  [scaffolds[idx] EXCEPT !.scffld =
                     [scffld EXCEPT
                         !.name = NameReplace(@, grp[h][k][1],
                                     <<cn.chr_prefix>> \o this_chr \o hap_suffix),
                         !.chr_name = this_chr]]
        ELSE scaffolds[idx]]

RECURSIVE name_groups_from(_, _, _)
name_groups_from(cn, scaffolds, i) ==
    IF i > Len(cn.groups) THEN scaffolds
    ELSE name_groups_from(cn, name_chromosome(cn, scaffolds, cn.groups[i], i), i + 1)

\* The groups sorted by ascending length and then reversed, which puts groups
\* of equal length in the opposite of their emission order
sort_groups_reversed(cn) ==
    LET asc == SortedByKeys(cn.groups,
                   [g \in 1..Len(cn.groups) |-> length_of_first_haplotype(cn, cn.groups[g])])
    IN  [g \in 1..Len(asc) |-> asc[Len(asc) + 1 - g]]

\* list.sort(key=length_of_first_haplotype, reverse=True)
sort_groups(cn) ==
    SortedByKeys(cn.groups,
        [g \in 1..Len(cn.groups) |-> 0 - length_of_first_haplotype(cn, cn.groups[g])])

\* ChrNamer.name_chromosomes
name_chromosomes(cn) ==
    IF cn.haplotypes_seen = <<>> THEN cn
    ELSE LET built == build_groups(cn)
         IN  IF built.error # "" THEN built
             ELSE LET srtd == [built EXCEPT !.groups = sort_groups(built)]
                  IN  [srtd EXCEPT !.scaffolds = name_groups_from(srtd, @, 1)]


\* Names the curated map gives its scaffolds, in emission order
OriginalNames == <<"S1", "S2", "S3", "S4", "S5", "S6">>

Haplotypes == {"", "Hap1", "Hap2"}

\* A rank 1 scaffold as BuildAssembly hands it to ChrNamer.add_scaffold
ChrScaffold(name, original_name, fragments_length, original_tags) ==
    [name |-> name, original_name |-> original_name,
     fragments_length |-> fragments_length, original_tags |-> original_tags,
     chr_name |-> <<>>]

NInit == npc = "add" /\ chr_namer = ChrNamer("SUPER_")

\* chr_namer.add_scaffold(asm_key, cut_scffld) with a chromosome under the
\* next original_name
AddChromosome ==
    /\ npc = "add"
    /\ Len(chr_namer.scaffolds) < MaxChrScaffolds
    /\ \E hap \in Haplotypes, len \in 1..MaxChrLength, tags \in {{}, {"Singleton"}} :
          LET n == Cardinality({chr_namer.scaffolds[k].scffld.original_name :
                                    k \in 1..Len(chr_namer.scaffolds)})
              orig == OriginalNames[n + 1]
          IN  chr_namer' = add_scaffold(chr_namer, hap,
                               ChrScaffold(<<orig>>, orig, len, tags))
    /\ UNCHANGED npc

\* chr_namer.add_scaffold(asm_key, cut_scffld) with an unloc of the scaffold
\* added last
AddUnloc ==
    /\ npc = "add"
    /\ Len(chr_namer.scaffolds) \in 1..MaxChrScaffolds - 1
    /\ \E len \in 1..MaxChrLength :
          LET last == chr_namer.scaffolds[Len(chr_namer.scaffolds)]
              orig == last.scffld.original_name
          IN  chr_namer' = add_scaffold(chr_namer, last.haplotype,
                               ChrScaffold(<<orig, "_unloc">>, orig, len,
                                           last.scffld.original_tags))
    /\ UNCHANGED npc

\* chr_namer.name_chromosomes()
NameChromosomes ==
    /\ npc = "add"
    /\ chr_namer' = name_chromosomes(chr_namer)
    /\ npc' = IF chr_namer'.error = "" THEN "named" ELSE "raised"

SpecChrNamerInit == NInit /\ FIdle /\ JIdle /\ BIdle /\ CIdle /\ SIdle /\ TIdle

SpecChrNamerNext ==
    /\ \/ AddChromosome
       \/ AddUnloc
       \/ NameChromosomes
    /\ UNCHANGED <<fvars, jvars, bvars, cvars, svars, tvars>>

SpecChrNamer == SpecChrNamerInit /\ [][SpecChrNamerNext]_vars


-----------------------------------------------------------------------------
(* Properties of autosome naming                                           *)

\* The scaffolds of a group, as positions in ChrNamer.scaffolds
GroupScaffolds(grp) ==
    {idx \in 1..Len(chr_namer.scaffolds) :
        \E h \in 1..Len(grp) : \E k \in 1..Len(grp[h]) : Contains(grp[h][k][2], idx)}

Groups == {chr_namer.groups[g] : g \in 1..Len(chr_namer.groups)}

\* The chromosome numbers carried by the scaffolds of a group
ChrNumbers(grp) ==
    {chr_namer.scaffolds[idx].scffld.chr_name[1] : idx \in GroupScaffolds(grp)}

\* Emission order of groups: the position of a group's first scaffold
Emitted(grp) == SetMin(GroupScaffolds(grp))

FirstHaplotypeLength(grp) ==
    SeqSum([idx \in 1..Len(chr_namer.scaffolds) |->
        IF idx \in GroupScaffolds(grp)
           /\ chr_namer.scaffolds[idx].haplotype = chr_namer.haplotypes_seen[1]
        THEN chr_namer.scaffolds[idx].scffld.fragments_length ELSE 0])

\* C11: after name_chromosomes the G groups carry the chromosome numbers
\* 1..G, one number per group and one group per number, the length of the
\* first haplotype's scaffolds does not increase with the number, and groups
\* of equal first-haplotype length are numbered in emission order.
C11_GroupsNumberedBySize ==
    npc = "named" /\ chr_namer.haplotypes_seen # <<>> =>
        /\ \A g \in Groups : \E n \in 1..Cardinality(Groups) : ChrNumbers(g) = {n}
        /\ \A n \in 1..Cardinality(Groups) : \E g \in Groups : ChrNumbers(g) = {n}
        /\ \A g1, g2 \in Groups : g1 # g2 => ChrNumbers(g1) # ChrNumbers(g2)
        /\ \A idx \in 1..Len(chr_namer.scaffolds) :
               Cardinality({g \in Groups : idx \in GroupScaffolds(g)}) = 1
        /\ \A g1, g2 \in Groups : \A n1 \in ChrNumbers(g1), n2 \in ChrNumbers(g2) :
               n1 < n2 =>
                   /\ FirstHaplotypeLength(g1) >= FirstHaplotypeLength(g2)
                   /\ FirstHaplotypeLength(g1) = FirstHaplotypeLength(g2)
                          => Emitted(g1) < Emitted(g2)

\* Three groups named, two of them of equal length and emitted before a
\* longer one
C11_Witness ==
    /\ npc = "named"
    /\ \E g1, g2, g3 \in Groups :
          /\ Emitted(g1) < Emitted(g2) /\ Emitted(g2) < Emitted(g3)
          /\ FirstHaplotypeLength(g1) = FirstHaplotypeLength(g2)
          /\ FirstHaplotypeLength(g3) > FirstHaplotypeLength(g1)
          /\ ChrNumbers(g3) = {1} /\ ChrNumbers(g1) = {2} /\ ChrNumbers(g2) = {3}


\* The original_names a group holds under the first haplotype, in order
FirstHaplotypeNames(grp) == [k \in 1..Len(grp[1]) |-> grp[1][k][1]]

Finished == npc \in {"named", "raised"} /\ chr_namer.haplotypes_seen # <<>>

\* C12: build_groups raises the naming error exactly when some group has no
\* scaffold under the first haplotype.  A group holding several
\* original_names under the first haplotype is accepted, and name_chromosomes
\* gives them the group's number with the letters A, B, ... in order.
C12_ConsecutiveFirstHaplotypeNamed ==
    Finished /\ chr_namer.error # "TaggingError" =>
        /\ chr_namer.error = "ChrNamerError" <=> \E g \in Groups : g[1] = <<>>
        /\ chr_namer.error = "ChrNamerError" =>
               \A k \in 1..Len(chr_namer.scaffolds) :
                   chr_namer.scaffolds[k].scffld.chr_name = <<>>
        /\ chr_namer.error = "" =>
               \A g \in Groups : Len(g[1]) > 1 =>
                   \A k \in 1..Len(g[1]) : \A j \in 1..Len(g[1][k][2]) :
                       LET scffld == chr_namer.scaffolds[g[1][k][2][j]].scffld
                       IN  /\ Len(scffld.chr_name) = 2
                           /\ scffld.chr_name[2] = <<"A", "B", "C", "D", "E", "F">>[k]

\* Hap1:S1, Hap1:S2, Hap2:S3, Hap2:S4 named as one group, 1A and 1B
C12_Witness ==
    /\ npc = "named"
    /\ Len(chr_namer.haplotypes_seen) = 2
    /\ Len(chr_namer.scaffolds) = 4
    /\ \E g \in Groups :
          /\ Len(g[1]) = 2 /\ Len(g[2]) = 2
          /\ chr_namer.scaffolds[1].scffld.chr_name = <<1, "A">>
          /\ chr_namer.scaffolds[2].scffld.chr_name = <<1, "B">>
          /\ chr_namer.scaffolds[2].scffld.name = <<"SUPER_", 1, "B", "_", "Hap1">>

\* C12 as stated: a group with more than one original_name under the first
\* haplotype makes build_groups raise the naming error
C12_ConsecutiveFirstHaplotypeRaises ==
    Finished /\ chr_namer.error # "TaggingError"
    /\ (\E g \in Groups : Len(g[1]) > 1)
        => npc = "raised" /\ chr_namer.error = "ChrNamerError"


-----------------------------------------------------------------------------
(* BuildAssembly.cut_scaffold_if_too_long                                  *)

MaxCutRows == 7
MaxCutRowLength == 2
MaxContigLength == 4

\* math.ceil(whole / max_contig_length)
CeilDiv(a, b) == (a + b - 1) \div b

\* for i in range(ovr_i, 0, -1): if isinstance(rows[i], Gap): break;
\* -1 stands for None
RECURSIVE gap_i_before(_, _)
gap_i_before(rows, i) ==
    IF i <= 0 THEN -1
    ELSE IF IsGap(At(rows, i)) THEN i
    ELSE gap_i_before(rows, i - 1)

\* for i in range(ovr_i, len(rows)): if isinstance(rows[i], Gap): break
RECURSIVE gap_i_after(_, _)
gap_i_after(rows, i) ==
    IF i >= Len(rows) THEN -1
    ELSE IF IsGap(At(rows, i)) THEN i
    ELSE gap_i_after(rows, i + 1)

\* IndexedAssembly.start_end_of_row(name, index)[0]
start_of_row(idx, index) == IF index = 0 THEN 1 ELSE 1 + At(idx, index - 1)

\* BuildAssembly.index_of_nearest_gap_to_ideal_cut_site: the index of the
\* Gap, -1 when LongScaffoldCuttingError is raised, -2 when the temporary
\* IndexedAssembly raises ValueError for a scaffold without rows
index_of_nearest_gap_to_ideal_cut_site(rows, cut_at) ==
    IF rows = <<>> THEN -2
    ELSE
    LET idx == overlap_index(rows)
        ovr_i_j == get_overlap_fragment_indices(idx, cut_at, cut_at)
    IN  IF ovr_i_j = <<>> THEN -1
        ELSE
        LET ovr_i == ovr_i_j[1]
            before == gap_i_before(rows, ovr_i)
            after == gap_i_after(rows, ovr_i)
            length_before == start_of_row(idx, before) - 1
            length_after == start_of_row(idx, after) - 1
        IN  IF IsGap(At(rows, ovr_i)) THEN ovr_i
            ELSE IF before = -1 /\ after = -1 THEN -1
            ELSE IF before = -1 THEN after
            ELSE IF after = -1 THEN before
            ELSE IF Abs(cut_at - length_before) < Abs(length_after - cut_at)
                 THEN before ELSE after


\* The loop of cut_scaffold_if_too_long from div down to 2: the lists of rows
\* cut off so far, then the rest; status is the exception raised, if any
RECURSIVE cut_loop(_, _, _, _)
cut_loop(to_cut, whole, div, parts) ==
    IF div <= 1 THEN [status |-> "ok", parts |-> Append(parts, to_cut)]
    ELSE
    LET cut_at == whole \div div
        gap_i == index_of_nearest_gap_to_ideal_cut_site(to_cut, cut_at)
    IN  IF gap_i = -1 THEN [status |-> "LongScaffoldCuttingError", parts |-> <<>>]
        ELSE IF gap_i = -2 THEN [status |-> "ValueError", parts |-> <<>>]
        ELSE cut_loop(Slice(to_cut, gap_i + 1, Len(to_cut)), whole, div - 1,
                      Append(parts, Slice(to_cut, 0, gap_i)))

\* BuildAssembly.cut_scaffold_if_too_long: the parts returned, each with its
\* name (the scaffold's name, then the suffix number or 0 for none) and rows
cut_scaffold_if_too_long(scffld, max_length) ==
    LET whole == ScaffoldLength(scffld.rows)
        pieces == CeilDiv(whole, max_length)
        cut == cut_loop(scffld.rows, whole, pieces, <<>>)
    IN  IF pieces = 1
        THEN [status |-> "ok", parts |-> <<[name |-> <<scffld.name, 0>>, rows |-> scffld.rows]>>]
        ELSE IF cut.status # "ok" THEN cut
        ELSE IF \E k \in 1..Len(cut.parts) : ScaffoldLength(cut.parts[k]) > max_length
        THEN [status |-> "LongScaffoldCuttingError", parts |-> <<>>]
        ELSE [status |-> "ok",
              parts |-> [k \in 1..Len(cut.parts) |->
                            [name |-> <<scffld.name, k>>, rows |-> cut.parts[k]]]]

\* Fused scaffolds: they start and end with a Fragment
CutShapes ==
    {sh \in UNION {ShapesOf(n, 1..MaxCutRowLength, {1}) : n \in 1..MaxCutRows} :
        sh[1][1] = "F" /\ sh[Len(sh)][1] = "F"}

CInit ==
    /\ cpc = "fused"
    /\ \E sh \in CutShapes : long_scffld = [name |-> "too_big", rows |-> MkRows(sh, "s1")]
    /\ max_contig_length \in 1..MaxContigLength
    /\ cut_parts = <<>>

\* cut_scaffolds = self.cut_scaffold_if_too_long(scffld)
CutScaffoldIfTooLong ==
    /\ cpc = "fused"
    /\ cut_parts' = cut_scaffold_if_too_long(long_scffld, max_contig_length)
    /\ cpc' = IF cut_parts'.status = "ok" THEN "cut" ELSE "raised"
    /\ UNCHANGED <<long_scffld, max_contig_length>>

SpecCutInit == CInit /\ FIdle /\ JIdle /\ BIdle /\ NIdle /\ SIdle /\ TIdle

SpecCutNext ==
    CutScaffoldIfTooLong /\ UNCHANGED <<fvars, jvars, bvars, nvars, svars, tvars>>

SpecCut == SpecCutInit /\ [][SpecCutNext]_vars


-----------------------------------------------------------------------------
(* Properties of long scaffold cutting                                     *)

\* The cuts the comment in cut_scaffold_if_too_long describes: each at the
\* Gap nearest to 1/div of the way along what remains of the scaffold
RECURSIVE CutsOfRemainder(_, _, _)
CutsOfRemainder(to_cut, div, parts) ==
    IF div <= 1 THEN [status |-> "ok", parts |-> Append(parts, to_cut)]
    ELSE
    LET gap_i == index_of_nearest_gap_to_ideal_cut_site(
                     to_cut, ScaffoldLength(to_cut) \div div)
    IN  IF gap_i < 0 THEN [status |-> "no gap", parts |-> <<>>]
        ELSE CutsOfRemainder(Slice(to_cut, gap_i + 1, Len(to_cut)), div - 1,
                             Append(parts, Slice(to_cut, 0, gap_i)))

Pieces == CeilDiv(ScaffoldLength(long_scffld.rows), max_contig_length)

Intended == CutsOfRemainder(long_scffld.rows, Pieces, <<>>)

\* Gaps exist at which the intended cuts leave Pieces parts, none of them
\* longer than max_contig_length
IntendedFits ==
    /\ Intended.status = "ok"
    /\ \A k \in 1..Len(Intended.parts) :
           ScaffoldLength(Intended.parts[k]) <= max_contig_length

\* C13: for a scaffold longer than max_contig_length, n the number of pieces,
\* cut_scaffold_if_too_long makes n-1 cuts, the k-th at the Gap nearest to
\* 1/(n-k+1) of the way along what remains after the earlier cuts, drops the
\* Gap at each cut and returns the n parts named <name>_1 .. <name>_n.
C13_CutsAtFractionsOfRemainder ==
    cpc # "fused" /\ Pieces >= 2 /\ IntendedFits =>
        /\ cut_parts.status = "ok"
        /\ Len(cut_parts.parts) = Pieces
        /\ \A k \in 1..Pieces :
               /\ cut_parts.parts[k].name = <<long_scffld.name, k>>
               /\ cut_parts.parts[k].rows = Intended.parts[k]


-----------------------------------------------------------------------------
(* ScaffoldNamer in find_assembly_overlaps: make_scaffold_name once for    *)
(* each curated scaffold, label_scaffold for the result of a fragment      *)

MaxNamedScaffolds == 2

ScaffoldTags == {"Painted", "Primary", "Hap1"}
DispositionTags == {"Unloc", "Haplotig", "FalseDuplicate"}
FirstRowNames == {"s1", "hap1_s_1"}

\* A curated scaffold of two fragments, the first carrying the scaffold's
\* tags and the second the disposition tags
CuratedScaffold(name, first_name, tags, disposition) ==
    [name |-> name,
     rows |-> <<Fragment(first_name, 1, 1, 1, tags),
                Fragment("s2", 1, 1, 1, disposition)>>]

SInit ==
    /\ spc = "name"
    /\ scaffold_namer = ScaffoldNamer
    /\ named = <<>>
    /\ last_call = [op |-> "", scaffold |-> <<>>, fragment |-> <<>>,
                    before |-> ScaffoldNamer, n |-> 0]

\* scaffold_namer.make_scaffold_name(prtxt_scffld, prtxt_scffld_tags)
MakeScaffoldName ==
    /\ spc \in {"name", "label"}
    /\ last_call.n < MaxNamedScaffolds
    /\ \E first_name \in FirstRowNames, tags \in SUBSET ScaffoldTags,
          disposition \in SUBSET DispositionTags :
          LET prtxt_scffld == CuratedScaffold("R" \o ToString(last_call.n + 1),
                                              first_name, tags, disposition)
          IN  /\ scaffold_namer' =
                     make_scaffold_name(scaffold_namer, prtxt_scffld.name, prtxt_scffld.rows)
              /\ last_call' = [op |-> "make_scaffold_name", scaffold |-> prtxt_scffld,
                               fragment |-> <<>>, before |-> scaffold_namer,
                               n |-> last_call.n + 1]
    /\ spc' = IF scaffold_namer'.error # "" THEN "raised" ELSE "label"
    /\ UNCHANGED named

\* scaffold_namer.label_scaffold(found, prtxt_frag, prtxt_scffld_tags,
\* prtxt_scffld.name) for one fragment of the scaffold just named
LabelScaffold ==
    /\ spc = "label"
    /\ \E k \in 1..2 :
          LET prtxt_scffld == last_call.scaffold
              prtxt_frag == prtxt_scffld.rows[k]
              found == OverlapResult(prtxt_frag, <<Fragment(prtxt_frag.name, 1, 1, 1, {})>>, 1, 1)
              done == label_scaffold(scaffold_namer, found, Len(named) + 1, prtxt_frag,
                                     fragment_tags(prtxt_scffld.rows), prtxt_scffld.name)
          IN  /\ scaffold_namer' = done[1]
              /\ named' = Append(named, done[2])
              /\ last_call' = [last_call EXCEPT !.op = "label_scaffold",
                                                !.fragment = prtxt_frag,
                                                !.before = scaffold_namer]
    /\ spc' = IF scaffold_namer'.error # "" THEN "raised" ELSE "name"

SpecScaffoldNamerInit == SInit /\ FIdle /\ JIdle /\ BIdle /\ NIdle /\ CIdle /\ TIdle

SpecScaffoldNamerNext ==
    /\ \/ MakeScaffoldName
       \/ LabelScaffold
    /\ UNCHANGED <<fvars, jvars, bvars, nvars, cvars, tvars>>

SpecScaffoldNamer == SpecScaffoldNamerInit /\ [][SpecScaffoldNamerNext]_vars


-----------------------------------------------------------------------------
(* Properties of scaffold naming                                           *)

CallTags == fragment_tags(last_call.scaffold.rows)

\* The last call was make_scaffold_name on a scaffold tagged Primary for
\* which no haplotype can be determined
PrimaryWithoutHaplotype ==
    /\ last_call.op = "make_scaffold_name"
    /\ "Primary" \in CallTags
    /\ "Hap1" \notin CallTags
    /\ FirstRowNameHaplotype(last_call.scaffold.rows[1].name) = ""

\* C15: make_scaffold_name on a scaffold that carries Primary and for which
\* no haplotype can be determined raises the tagging error exactly when no
\* primary haplotype has been set by an earlier scaffold; once it is set the
\* call completes, leaves the primary haplotype as it is and gives the
\* scaffold no haplotype.
C15_PrimaryNeedsHaplotypeOnce ==
    PrimaryWithoutHaplotype =>
        /\ scaffold_namer.error = "TaggingError"
               <=> last_call.before.primary_haplotype = ""
        /\ scaffold_namer.error = "" =>
               /\ scaffold_namer.primary_haplotype = last_call.before.primary_haplotype
               /\ scaffold_namer.current_haplotype = ""

\* A second scaffold tagged Primary without a haplotype, named after Hap1
\* was made the primary haplotype
C15_Witness ==
    /\ PrimaryWithoutHaplotype
    /\ last_call.before.primary_haplotype = "Hap1"
    /\ scaffold_namer.error = ""
    /\ spc = "label"

\* C15 as stated: every such call raises, also when a primary haplotype was
\* already set
C15_PrimaryAlwaysNeedsHaplotype ==
    PrimaryWithoutHaplotype => scaffold_namer.error = "TaggingError"

\* The last call was label_scaffold for a fragment tagged Unloc of a curated
\* scaffold that is not Painted
UnlocUnpainted ==
    /\ last_call.op = "label_scaffold"
    /\ "Unloc" \in last_call.fragment.tags
    /\ "Painted" \notin CallTags

\* C16: label_scaffold for a fragment tagged Unloc in a scaffold without
\* Painted raises the tagging error unless the fragment is also tagged
\* FalseDuplicate or Haplotig, which are tested first; when it raises, the
\* unloc and haplotig lists are left as they were.
C16_UnpaintedUnlocRaisesUnlessOtherwiseDisposed ==
    UnlocUnpainted =>
        /\ scaffold_namer.error = "TaggingError"
               <=> last_call.fragment.tags \cap {"FalseDuplicate", "Haplotig"} = {}
        /\ scaffold_namer.error = "TaggingError" =>
               /\ scaffold_namer.unloc_scaffolds = last_call.before.unloc_scaffolds
               /\ scaffold_namer.haplotig_scaffolds = last_call.before.haplotig_scaffolds
        /\ scaffold_namer.unloc_scaffolds = last_call.before.unloc_scaffolds
        /\ scaffold_namer.error = "" /\ "FalseDuplicate" \notin last_call.fragment.tags =>
               /\ scaffold_namer.haplotig_scaffolds =
                      Append(last_call.before.haplotig_scaffolds, Len(named))
               /\ named[Len(named)].tag = "Haplotig"

\* An Unloc + Haplotig fragment of an unpainted scaffold labelled as a
\* haplotig
C16_Witness ==
    /\ UnlocUnpainted
    /\ last_call.fragment.tags = {"Unloc", "Haplotig"}
    /\ scaffold_namer.error = ""
    /\ named[Len(named)].name = "H_1"

\* C16 as stated: the call raises whatever other tags the fragment carries
C16_UnpaintedUnlocAlwaysRaises ==
    UnlocUnpainted =>
        /\ scaffold_namer.error = "TaggingError"
        /\ scaffold_namer.unloc_scaffolds = last_call.before.unloc_scaffolds
        /\ scaffold_namer.haplotig_scaffolds = last_call.before.haplotig_scaffolds

----------------------------------------------------------------------------
(* Properties of the shortest-overlap rule of make_fixes                   *)

\* The fixes made under the shortest-overlap rule
OverlapFixes == {fix \in Fixes : fix.rule = "overlap"}

\* C18: when exactly two premises share a fragment and both bait overlaps
\* are shorter than err_length, make_fixes discards the row of the premise
\* with the strictly shorter bait overlap, and on a tie the row of the second
\* premise in the list; that OverlapResult has lost the row when the round
\* ends.
C18_ShorterOverlapElseSecond ==
    \A fix \in OverlapFixes :
        /\ Len(fix.list_overlaps) = 2
        /\ fix.list_overlaps[1] < error_length(build)
        /\ fix.list_overlaps[2] < error_length(build)
        /\ fix.scaffold = IF fix.list_overlaps[1] < fix.list_overlaps[2]
                          THEN fix.list_scaffolds[1]
                          ELSE fix.list_scaffolds[2]
        /\ Len(build.objs[fix.scaffold].rows) < fix.rows_before

\* Two premises with equal bait overlaps, and the second was applied
C18_Witness ==
    \E fix \in OverlapFixes :
        /\ fix.list_overlaps[1] = fix.list_overlaps[2]
        /\ fix.scaffold = fix.list_scaffolds[2]
        /\ fix.list_scaffolds[1] # fix.list_scaffolds[2]

\* C18 as stated: on a tie the row of the first premise in the list is
\* discarded.
C18_ShorterOverlapElseFirst ==
    \A fix \in OverlapFixes :
        fix.scaffold = IF fix.list_overlaps[1] <= fix.list_overlaps[2]
                       THEN fix.list_scaffolds[1]
                       ELSE fix.list_scaffolds[2]


----------------------------------------------------------------------------
(* Properties of cutting a fragment that curated fragments tile            *)

\* The baits of the OverlapResults of a cut, as a set
CutBaits(cut) == {build.objs[cut.scaffolds[k]].bait : k \in 1..Len(cut.scaffolds)}

\* The input is one scaffold of one fragment, and the baits of the cut lie
\* end to end over exactly that fragment
TilesExactly(cut) ==
    /\ Len(build.input) = 1
    /\ build.input[1].rows = <<cut.fragment>>
    /\ Cardinality(CutBaits(cut)) = Len(cut.scaffolds)
    /\ \A b, c \in CutBaits(cut) : b # c => b.end < c.start \/ c.end < b.start
    /\ \A b \in CutBaits(cut) :
          /\ b.start = 1 \/ \E c \in CutBaits(cut) : c.end + 1 = b.start
          /\ b.end = RowLength(cut.fragment)
                \/ \E c \in CutBaits(cut) : c.start = b.end + 1

\* The part of the fragment, the only row of its scaffold, under the bait
PartUnder(fragment, bait) ==
    IF fragment.strand = 1
    THEN <<fragment.start + bait.start - 1, fragment.start + bait.end - 1>>
    ELSE <<fragment.end - bait.end + 1, fragment.end - bait.start + 1>>

\* The cut did not raise and gave each OverlapResult the part under its bait
CutAlongBaits(cut) ==
    /\ ~cut.raised
    /\ \A k \in 1..Len(cut.scaffolds) :
          LET sub == cut.sub_fragments[k]
          IN  /\ <<sub.start, sub.end>>
                    = PartUnder(cut.fragment, build.objs[cut.scaffolds[k]].bait)
              /\ sub.name = cut.fragment.name
              /\ sub.strand = cut.fragment.strand
              /\ bpc = "rename" => build.objs[cut.scaffolds[k]].rows = <<sub>>

\* C17: cut_fragments succeeds whenever two or more baits tile one input
\* fragment exactly, whichever the strand of the fragment: the sub-fragments
\* pass qc_sub_fragments and each OverlapResult ends up with exactly the part
\* of the fragment under its own bait.
C17_ExactTilingIsCut ==
    \A i \in 1..Len(build.cuts) :
        TilesExactly(build.cuts[i]) => CutAlongBaits(build.cuts[i])

\* The same for the fragments of the forward strand only
ForwardExactTilingIsCut ==
    \A i \in 1..Len(build.cuts) :
        TilesExactly(build.cuts[i]) /\ build.cuts[i].fragment.strand = 1
            => CutAlongBaits(build.cuts[i])

\* A forward fragment under three baits that tile it was cut along them
ForwardExactTilingCut ==
    \E i \in 1..Len(build.cuts) :
        /\ TilesExactly(build.cuts[i])
        /\ build.cuts[i].fragment.strand = 1
        /\ Len(build.cuts[i].scaffolds) = 3
        /\ CutAlongBaits(build.cuts[i])

\* A reverse fragment under baits that tile it was cut without raising
ReverseExactTilingCut ==
    \E i \in 1..Len(build.cuts) :
        /\ TilesExactly(build.cuts[i])
        /\ build.cuts[i].fragment.strand = -1
        /\ ~build.cuts[i].raised


----------------------------------------------------------------------------
(* Overhang trimming harness: the body of the inner loop of                *)
(* find_assembly_overlaps for one curated fragment: find_overlaps,         *)
(* trim_large_overhangs(err_length), then registering the result if it     *)
(* still has rows                                                          *)

TrimShapes ==
    UNION {{sh \in ShapesOf(n, 1..MaxTrimRowLen, {1}) :
               ScaffoldLength(MkRows(sh, "s1")) <= MaxTrimLength} :
           n \in 1..MaxTrimRows}

TInit ==
    /\ tpc = "bait"
    /\ \E shape \in TrimShapes :
         /\ tRows = MkRows(shape, "s1")
         /\ \E s \in 1..ScaffoldLength(tRows) :
              \E e \in s..ScaffoldLength(tRows) :
                 tBait = Fragment("s1", s, e, 1, {})
    /\ tErr \in 1..MaxErrLength
    /\ tBefore = NoResult("unset")
    /\ tFound = NoResult("unset")
    /\ tRegistered = FALSE
    /\ tImproves = <<>>

\* if found := input_asm.find_overlaps(prtxt_frag)
TrimFindOverlaps ==
    /\ tpc = "bait"
    /\ tFound' = find_overlaps(tRows, tBait)
    /\ tpc' = IF tFound'.status = "ok" THEN "found"
              ELSE IF tFound'.status = "none" THEN "none" ELSE "raised"
    /\ UNCHANGED <<tRows, tBait, tErr, tBefore, tRegistered, tImproves>>

\* found.trim_large_overhangs(err_length)
TrimLargeOverhangs ==
    /\ tpc = "found"
    /\ tBefore' = tFound
    /\ tFound' = trim_large_overhangs(tFound, tErr)
    /\ tpc' = IF tFound'.status = "ok" THEN "trimmed" ELSE "raised"
    /\ UNCHANGED <<tRows, tBait, tErr, tRegistered, tImproves>>

\* if found.rows: self.add_scaffold(found); self.store_fragments_found(found)
RegisterFound ==
    /\ tpc = "trimmed"
    /\ tRegistered' = (tFound.rows # <<>>)
    /\ tpc' = "done"
    /\ UNCHANGED <<tRows, tBait, tErr, tBefore, tFound, tImproves>>

\* The premise for one end of the OverlapResult found
EndPremise(side) ==
    [scaffold |-> 1, side |-> side,
     fragment |-> IF side = "start" THEN PyAt(tFound.rows, 0) ELSE PyAt(tFound.rows, -1)]

\* OverhangPremise.improves(err_length) and makes_worse(err_length) on a
\* StartOverhangPremise and on an EndOverhangPremise of the OverlapResult found
Improves ==
    /\ tpc = "found"
    /\ tImproves' = [side \in {"start", "end"} |->
                        [improves |-> improves(<<tFound>>, EndPremise(side), tErr),
                         makes_worse |->
                            makes_worse(<<tFound>>, EndPremise(side), tErr)]]
    /\ tpc' = "weighed"
    /\ UNCHANGED <<tRows, tBait, tErr, tBefore, tFound, tRegistered>>

SpecTrimInit == TInit /\ FIdle /\ JIdle /\ BIdle /\ NIdle /\ CIdle /\ SIdle

SpecTrimNext ==
    /\ \/ TrimFindOverlaps
       \/ TrimLargeOverhangs
       \/ Improves
       \/ RegisterFound
    /\ UNCHANGED <<fvars, jvars, bvars, nvars, cvars, svars>>

SpecTrim == SpecTrimInit /\ [][SpecTrimNext]_vars

----------------------------------------------------------------------------
(* Properties of trim_large_overhangs                                      *)

\* trim_large_overhangs has returned
Trimmed == tpc \in {"trimmed", "done"}

\* What the call did, seen from outside: the start or the end of the
\* OverlapResult moved inwards
StartDiscarded == tFound.start > tBefore.start
EndDiscarded == tFound.end < tBefore.end

\* The two tests of the call, on the OverlapResult it was given
StartIsLargeOverhang ==
    start_overhang(tBefore) > tErr /\ start_row_bait_overlap(tBefore) < tErr
EndIsLargeOverhang ==
    end_overhang(tBefore) > tErr /\ end_row_bait_overlap(tBefore) < tErr

C20_TrimNeverRaises ==
    /\ tBefore.status = "ok" => tpc # "raised"
    /\ tpc = "done" /\ tFound.rows = <<>> => ~tRegistered

\* The single row under a short bait far from both of its ends
ShortBaitInsideOnlyRow ==
    /\ tBefore.status = "ok"
    /\ Len(tBefore.rows) = 1
    /\ RowLength(tBefore.bait) < tErr
    /\ start_overhang(tBefore) > tErr
    /\ end_overhang(tBefore) > tErr

\* Whenever trim_large_overhangs returns, a result left with no rows is
\* not registered and any other is
EmptiedResultNotRegistered ==
    tpc = "done" => (tRegistered <=> tFound.rows # <<>>)


----------------------------------------------------------------------------
(* Properties of scaffolds_fused_by_name                                   *)

\* The scaffolds of self.scaffolds that have rows and the haplotype and name
\* of the fused scaffold, in emission order
BlocksOf(fused) ==
    SelectSeq(build.scaffolds,
              LAMBDA id : /\ build.objs[id].rows # <<>>
                          /\ build.objs[id].haplotype = fused.haplotype
                          /\ build.objs[id].name = fused.name)

\* The rows a block brings
BlockRows(id) ==
    IF IsOverlapResult(build.objs[id]) THEN to_scaffold(build.objs[id])
    ELSE build.objs[id].rows

\* The blocks laid end to end, a default_gap before every block but the
\* first: before every such block, or only before those that come from an
\* OverlapResult
RECURSIVE JoinBlocks(_, _, _)
JoinBlocks(ids, first, before_every) ==
    IF ids = <<>> THEN <<>>
    ELSE (IF ~first /\ (before_every \/ IsOverlapResult(build.objs[ids[1]]))
          THEN <<default_gap>> ELSE <<>>)
         \o BlockRows(ids[1]) \o JoinBlocks(Tail(ids), FALSE, before_every)

\* C21: in every scaffold that scaffolds_fused_by_name produces, the blocks
\* sharing (haplotype, name) appear in emission order, every block but the
\* first is preceded by exactly one default_gap, whether it comes from an
\* OverlapResult or from a plain Scaffold, and OverlapResults with no rows
\* contribute nothing.
C21_GapBeforeEveryLaterBlock ==
    bpc \in {"done", "stats"} =>
        \A i \in 1..Len(build.fused) :
            build.fused[i].rows = JoinBlocks(BlocksOf(build.fused[i]), TRUE, TRUE)

\* The same with a default_gap only before the blocks that come from an
\* OverlapResult
GapBeforeLaterOverlapResults ==
    bpc \in {"done", "stats"} =>
        \A i \in 1..Len(build.fused) :
            build.fused[i].rows
                = JoinBlocks(BlocksOf(build.fused[i]), TRUE, FALSE)

\* A plain Scaffold was fused as a later block
PlainScaffoldFusedLater ==
    /\ bpc \in {"done", "stats"}
    /\ \E i \in 1..Len(build.fused) :
          \E k \in 2..Len(BlocksOf(build.fused[i])) :
              ~IsOverlapResult(build.objs[BlocksOf(build.fused[i])[k]])


\* The tags of the blocks fused into this scaffold
BlockTags(fused) ==
    {build.objs[BlocksOf(fused)[k]].tag : k \in 1..Len(BlocksOf(fused))}

\* C22: scaffolds_fused_by_name never merges a tagged block (Contaminant,
\* FalseDuplicate or Haplotig) with an untagged block, or blocks with
\* different tags, into one scaffold; so the rows of a tagged OverlapResult
\* are never in a primary or haplotype assembly and the rows of an untagged
\* one never in a tag-keyed assembly.
C22_FusedBlocksShareTheirTag ==
    bpc \in {"done", "stats"} =>
        \A i \in 1..Len(build.fused) :
            /\ Cardinality(BlockTags(build.fused[i])) <= 1
            /\ \A k \in 1..Len(BlocksOf(build.fused[i])) :
                  asm_key(build.fused[i])
                      = asm_key(build.objs[BlocksOf(build.fused[i])[k]])

\* Blocks with the same tag, or none, were fused
SameTagBlocksFused ==
    /\ bpc \in {"done", "stats"}
    /\ \E i \in 1..Len(build.fused) :
          /\ Len(BlocksOf(build.fused[i])) >= 2
          /\ BlockTags(build.fused[i]) = {"Contaminant"}


----------------------------------------------------------------------------
(* Properties of OverhangPremise.improves                                  *)

\* The overhang at this end of the OverlapResult found, now and once its
\* terminal row and the Gaps next to it are gone
OverhangNow(side) ==
    IF side = "start" THEN tFound.bait.start - tFound.start
    ELSE tFound.end - tFound.bait.end
OverhangIfApplied(side) ==
    IF side = "start" THEN tFound.bait.start - discard_start(tFound).start
    ELSE discard_end(tFound).end - tFound.bait.end

\* C24: improves(err) is true exactly when the error delta is negative, the
\* OverlapResult has more than one row and overhang_if_applied is greater than
\* -3 * err: an overhang of exactly -3 * err does not improve.  makes_worse
\* is its negation.
C24_ImprovesAboveLimit ==
    tpc = "weighed" =>
        \A side \in {"start", "end"} :
            /\ tImproves[side].improves <=>
                  /\ Abs(OverhangIfApplied(side)) - Abs(OverhangNow(side)) < 0
                  /\ Len(tFound.rows) > 1
                  /\ OverhangIfApplied(side) > (0 - 3) * tErr
            /\ tImproves[side].makes_worse <=> ~tImproves[side].improves

\* A premise that shrinks the overhang of a result of several rows to
\* exactly -3 * err has been weighed
C24_Witness ==
    /\ tpc = "weighed"
    /\ \E side \in {"start", "end"} :
          /\ Abs(OverhangIfApplied(side)) - Abs(OverhangNow(side)) < 0
          /\ Len(tFound.rows) > 1
          /\ OverhangIfApplied(side) = (0 - 3) * tErr
          /\ ~tImproves[side].improves
          /\ tImproves[side].makes_worse

\* C24 as stated: improves(err) is true exactly when the error delta is
\* negative, the OverlapResult has more than one row and overhang_if_applied
\* >= -3 * err.
C24_ImprovesFromLimit ==
    tpc = "weighed" =>
        \A side \in {"start", "end"} :
            /\ tImproves[side].improves <=>
                  /\ Abs(OverhangIfApplied(side)) - Abs(OverhangNow(side)) < 0
                  /\ Len(tFound.rows) > 1
                  /\ OverhangIfApplied(side) >= (0 - 3) * tErr
            /\ tImproves[side].makes_worse <=> ~tImproves[side].improves


----------------------------------------------------------------------------
(* Properties of add_missing_scaffolds_from_input                          *)

\* add_missing_scaffolds_from_input has run
MissingAdded == bpc \in {"fuse", "done", "stats"}

\* The rows of an input scaffold that hold a fragment not in found_fragments
Unfound(rows) ==
    {i \in 1..Len(rows) :
        IsFragment(rows[i]) /\ FoundAt(build.found, key_tuple(rows[i])) = 0}

\* The separator between the unfound fragments at rows i < j with no unfound
\* fragment between them: nothing when they are neighbours, default_gap when
\* a found fragment lies between them, else the Gap that lies between them
SeparatorAsStated(rows, i, j) ==
    IF j = i + 1 THEN <<>>
    ELSE IF \E k \in i + 1..j - 1 : IsFragment(rows[k]) THEN <<default_gap>>
    ELSE <<rows[j - 1]>>

\* The same, the Gap just before the second fragment being kept whenever
\* there is one
SeparatorFromRowBefore(rows, i, j) ==
    IF j = i + 1 THEN <<>>
    ELSE IF IsGap(rows[j - 1]) THEN <<rows[j - 1]>>
    ELSE <<default_gap>>

\* The unfound fragments from row i on in input order with their separators;
\* last is the row of the unfound fragment before, 0 if none
RECURSIVE EmittedRows(_, _, _, _)
EmittedRows(rows, i, last, as_stated) ==
    IF i > Len(rows) THEN <<>>
    ELSE IF i \in Unfound(rows)
    THEN (IF last = 0 THEN <<>>
          ELSE IF as_stated THEN SeparatorAsStated(rows, last, i)
          ELSE SeparatorFromRowBefore(rows, last, i))
         \o <<rows[i]>> \o EmittedRows(rows, i + 1, i, as_stated)
    ELSE EmittedRows(rows, i + 1, last, as_stated)

\* The scaffolds added for the input scaffold of this name
AddedFor(name) ==
    {id \in 1..Len(build.objs) :
        ~IsOverlapResult(build.objs[id]) /\ build.objs[id].name = name}

\* One rank 3 scaffold with the unfound fragments for each input scaffold
\* that has any, none for the others
MissingEmitted(as_stated) ==
    \A s \in 1..Len(build.input) :
        LET scffld == build.input[s]
        IN  IF Unfound(scffld.rows) = {} THEN AddedFor(scffld.name) = {}
            ELSE /\ Cardinality(AddedFor(scffld.name)) = 1
                 /\ \A id \in AddedFor(scffld.name) :
                       /\ build.objs[id].rank = 3
                       /\ build.objs[id].rows
                             = EmittedRows(scffld.rows, 1, 0, as_stated)

\* C23: add_missing_scaffolds_from_input emits, for each input scaffold with
\* a fragment absent from found_fragments, one rank 3 scaffold holding those
\* fragments in input order; between two of them separated in the input only
\* by a Gap that Gap is kept, and between two separated by found fragments
\* the separator is default_gap, also when the row just before the second
\* fragment is a Gap.
C23_DefaultGapAcrossFoundFragments == MissingAdded => MissingEmitted(TRUE)

\* The same with the Gap just before the second fragment kept whenever there
\* is one, and default_gap only when a found fragment is the row before
GapBeforeFragmentKept == MissingAdded => MissingEmitted(FALSE)

\* Two unfound fragments with a found fragment and then a Gap between them
FoundFragmentThenGapBetween ==
    /\ MissingAdded
    /\ \E s \in 1..Len(build.input) :
          LET rows == build.input[s].rows
          IN  \E i, j \in Unfound(rows) :
                 /\ i + 2 < j
                 /\ IsGap(rows[j - 1])
                 /\ \A k \in i + 1..j - 1 : k \notin Unfound(rows)


----------------------------------------------------------------------------
(* Properties of the names ChrGroup.name_chromosome gives                  *)

ChrLetters == <<"A", "B", "C", "D", "E", "F">>

\* The scaffolds of a group under the haplotype of scaffold idx
SameHaplotype(grp, idx) ==
    {j \in GroupScaffolds(grp) :
        chr_namer.scaffolds[j].haplotype = chr_namer.scaffolds[idx].haplotype}

\* The first scaffold of the group with the haplotype and original_name of
\* scaffold idx: its parent
Parent(grp, idx) ==
    SetMin({j \in SameHaplotype(grp, idx) :
               chr_namer.scaffolds[j].scffld.original_name
                   = chr_namer.scaffolds[idx].scffld.original_name})

\* The letter of scaffold idx: none when its haplotype holds one
\* original_name in the group, else A, B, ... by the emission order of the
\* original_names
ChrLetter(grp, idx) ==
    LET parents == {Parent(grp, j) : j \in SameHaplotype(grp, idx)}
    IN  IF Cardinality(parents) = 1 THEN <<>>
        ELSE <<ChrLetters[Cardinality({p \in parents : p <= Parent(grp, idx)})]>>

\* _<haplotype>, nothing for no haplotype and for Primary
HaplotypeSuffix(idx) ==
    IF chr_namer.scaffolds[idx].haplotype \in {"", "Primary"} THEN <<>>
    ELSE <<"_", chr_namer.scaffolds[idx].haplotype>>

\* The name of the scaffold at idx before naming: its original_name, with
\* _unloc after it for an unloc
IsUnloc(idx) == idx # Parent(CHOOSE g \in Groups : idx \in GroupScaffolds(g), idx)

\* The emission order Hap1:S1 (longer), Hap2:S2, Hap1:S3, Hap2:S4, Hap2:S5
FiveScaffoldExample ==
    /\ Len(chr_namer.scaffolds) = 5
    /\ [k \in 1..5 |-> chr_namer.scaffolds[k].haplotype]
          = <<"Hap1", "Hap2", "Hap1", "Hap2", "Hap2">>
    /\ [k \in 1..5 |-> chr_namer.scaffolds[k].scffld.original_name]
          = <<"S1", "S2", "S3", "S4", "S5">>
    /\ \A k \in 1..5 : chr_namer.scaffolds[k].scffld.original_tags = {}
    /\ chr_namer.scaffolds[1].scffld.fragments_length
          > chr_namer.scaffolds[3].scffld.fragments_length

\* C25: within a group numbered N a haplotype holding several original names
\* gets <prefix>N with the letters A, B, ... in emission order, a haplotype
\* holding one original name gets no letter, and an unloc takes its parent's
\* new name with its _unloc suffix kept.  For the emission order Hap1:S1,
\* Hap2:S2, Hap1:S3, Hap2:S4, Hap2:S5 with S1 longer than S3 the groups are
\* {S1, S2} and {S3, S4, S5} and the names SUPER_1_Hap1, SUPER_1_Hap2,
\* SUPER_2_Hap1, SUPER_2A_Hap2, SUPER_2B_Hap2.
C25_LettersWithinGroup ==
    npc = "named" /\ chr_namer.haplotypes_seen # <<>> =>
        /\ \A g \in Groups : \A idx \in GroupScaffolds(g) :
              LET n == CHOOSE n \in ChrNumbers(g) : TRUE
                  new == <<"SUPER_", n>> \o ChrLetter(g, idx) \o HaplotypeSuffix(idx)
                  scffld == chr_namer.scaffolds[idx].scffld
              IN  /\ scffld.chr_name = <<n>> \o ChrLetter(g, idx)
                  /\ scffld.name = IF IsUnloc(idx) THEN new \o <<"_unloc">> ELSE new
                  /\ IsUnloc(idx) =>
                        new = chr_namer.scaffolds[Parent(g, idx)].scffld.name
        /\ FiveScaffoldExample =>
              /\ {GroupScaffolds(g) : g \in Groups} = {{1, 2}, {3, 4, 5}}
              /\ [k \in 1..5 |-> chr_namer.scaffolds[k].scffld.name]
                    = << <<"SUPER_", 1, "_", "Hap1">>, <<"SUPER_", 1, "_", "Hap2">>,
                         <<"SUPER_", 2, "_", "Hap1">>,
                         <<"SUPER_", 2, "A", "_", "Hap2">>,
                         <<"SUPER_", 2, "B", "_", "Hap2">> >>

\* The five scaffolds of the example have been named
C25_Witness == npc = "named" /\ FiveScaffoldExample

\* An unloc of a lettered chromosome has been named
LetteredUnlocNamed ==
    /\ npc = "named"
    /\ \E g \in Groups : \E idx \in GroupScaffolds(g) :
          IsUnloc(idx) /\ ChrLetter(g, idx) = <<"B">>


----------------------------------------------------------------------------
(* Properties of the Target mode                                           *)

\* The curated scaffolds that carry the Target tag, as positions in the map
TargetScaffolds ==
    {i \in 1..Len(build.prtxt) : "Target" \in fragment_tags(build.prtxt[i].rows)}

\* The position in the map of the curated scaffold a result was labelled from
CuratedIndex(r) ==
    CHOOSE i \in 1..Len(build.prtxt) : build.prtxt[i].name = r.original_name

\* The result was labelled from the first Target scaffold or a later one
LabelledInTargetMode(r) == \E i \in TargetScaffolds : i <= CuratedIndex(r)

\* The OverlapResults labelled so far
Labelled == {r \in Results : IsOverlapResult(r) /\ r.original_name # ""}

\* The Scaffolds added for input scaffolds that are not in the map
AddedMissing == {r \in Results : ~IsOverlapResult(r)}

\* The unfound rows of the input scaffold with this name
UnfoundRows(name) ==
    LET rows == RowsByName(build.input, name)
    IN  SelectSeq(rows, LAMBDA row : IsFragment(row)
                                      /\ FoundAt(build.found, key_tuple(row)) = 0)

\* The Target mode when the input scaffold at position s is added as missing:
\* set by the map or by an input scaffold added before it that carries Target
TargetModeAtMissing(s) ==
    \/ TargetScaffolds # {}
    \/ \E t \in 1..s : "Target" \in fragment_tags(UnfoundRows(build.input[t].name))

\* The Target mode is set once the first Target scaffold has been named and
\* stays set; results labelled before it or from a scaffold that carries
\* Target are Contaminant only by their own tag; an input scaffold added as
\* missing in Target mode is Contaminant unless it carries Target
TargetModeElsewhere ==
    /\ bpc # "find" /\ TargetScaffolds # {} /\ build.namer.error = ""
          => build.namer.target_tags
    /\ \A r \in Labelled :
          ~LabelledInTargetMode(r) \/ "Target" \in r.original_tags
              => (r.tag = "Contaminant" => "Contaminant" \in r.bait.tags)
    /\ \A r \in AddedMissing :
          \A s \in 1..Len(build.input) : build.input[s].name = r.name =>
              (r.tag = "Contaminant"
                  <=> /\ TargetModeAtMissing(s)
                      /\ "Target" \notin fragment_tags(build.input[s].rows))

\* The results labelled in Target mode from a curated scaffold without Target
OutsideTarget ==
    {r \in Labelled : LabelledInTargetMode(r) /\ "Target" \notin r.original_tags}

\* C26: the Target mode is monotone and takes effect from the first Target
\* scaffold on.  Every OverlapResult labelled from then on whose curated
\* scaffold lacks Target gets rank 3 and the tag Contaminant, unless its
\* curated fragment is tagged FalseDuplicate or Haplotig, which then is its
\* tag; input scaffolds added as missing are Contaminant unless they carry
\* Target; results labelled before the first Target scaffold are not retagged.
C26_TargetModeContaminantUnlessDisposed ==
    /\ TargetModeElsewhere
    /\ \A r \in OutsideTarget :
          /\ r.rank = 3
          /\ r.tag = IF "FalseDuplicate" \in r.bait.tags THEN "FalseDuplicate"
                     ELSE IF "Haplotig" \in r.bait.tags THEN "Haplotig"
                     ELSE "Contaminant"

\* After a Target scaffold, a scaffold without Target gave a Haplotig result;
\* an input scaffold was added as missing and tagged Contaminant
C26_Witness ==
    /\ bpc = "fuse"
    /\ \E r \in OutsideTarget : r.tag = "Haplotig"
    /\ \E r \in AddedMissing : r.tag = "Contaminant"

\* C26 as stated: every OverlapResult labelled from the first Target scaffold
\* on whose curated scaffold lacks Target gets tag Contaminant and rank 3.
C26_TargetModeContaminant ==
    /\ TargetModeElsewhere
    /\ \A r \in OutsideTarget : r.rank = 3 /\ r.tag = "Contaminant"

\* A result labelled before the first Target scaffold has kept no tag after
\* the Target mode was set
EarlierResultNotRetagged ==
    /\ bpc = "fuse"
    /\ build.namer.target_tags
    /\ \E r \in Labelled : ~LabelledInTargetMode(r) /\ r.tag = ""


----------------------------------------------------------------------------
(* Life of one OverlapResult: created by find_overlaps, then any sequence  *)
(* of discard_start, discard_end, trim_large_overhangs and trim_fragment   *)

MaxOpRows == 3
MaxOpRowLen == 2

OpShapes ==
    UNION {ShapesOf(n, 1..MaxOpRowLen, {1, -1}) : n \in 1..MaxOpRows}

OpInit ==
    /\ tpc = "bait"
    /\ \E shape \in OpShapes :
         /\ tRows = MkRows(shape, "s1")
         /\ \E s \in 1..ScaffoldLength(tRows) :
              \E e \in s..ScaffoldLength(tRows) :
                 \E strand \in {1, -1} :
                    tBait = Fragment("s1", s, e, strand, {})
    /\ tErr \in 1..MaxErrLength
    /\ tBefore = NoResult("unset")
    /\ tFound = NoResult("unset")
    /\ tRegistered = FALSE
    /\ tImproves = <<>>

\* An OverlapResult exists and no call on it has raised
OpLive == tpc \notin {"bait", "none", "raised"} /\ tFound.status = "ok"

\* The OverlapResult after a call, and the stage the call leaves it in
OpDone(after, op) ==
    /\ tBefore' = tFound
    /\ tFound' = after
    /\ tpc' = IF after.status = "ok" THEN op ELSE "raised"
    /\ UNCHANGED <<tRows, tBait, tErr, tRegistered, tImproves>>

OpDiscardStart == OpLive /\ OpDone(discard_start(tFound), "discard_start")

OpDiscardEnd == OpLive /\ OpDone(discard_end(tFound), "discard_end")

OpTrimLargeOverhangs ==
    OpLive /\ OpDone(trim_large_overhangs(tFound, tErr), "trim_large_overhangs")

\* trim_fragment on any Fragment of the rows, with either keep flag
OpTrimFragment ==
    /\ OpLive
    /\ \E i \in 1..Len(tFound.rows) : \E keep_start, keep_end \in BOOLEAN :
          /\ IsFragment(tFound.rows[i])
          /\ OpDone(trim_fragment(tFound, tFound.rows[i], keep_start, keep_end)[1],
                    "trim_fragment")

SpecOverlapResultInit == OpInit /\ FIdle /\ JIdle /\ BIdle /\ NIdle /\ CIdle /\ SIdle

SpecOverlapResultNext ==
    /\ \/ TrimFindOverlaps
       \/ OpDiscardStart
       \/ OpDiscardEnd
       \/ OpTrimLargeOverhangs
       \/ OpTrimFragment
    /\ UNCHANGED <<fvars, jvars, bvars, nvars, cvars, svars>>

SpecOverlapResult == SpecOverlapResultInit /\ [][SpecOverlapResultNext]_vars

\* C27: in every state of an OverlapResult, from find_overlaps through any
\* sequence of discard_start, discard_end, trim_large_overhangs and
\* trim_fragment, the rows are empty or begin and end with a Fragment.
C27_NoGapAtEitherEnd ==
    tFound.bait # <<>> /\ tFound.rows # <<>>
        => IsFragment(PyAt(tFound.rows, 0)) /\ IsFragment(PyAt(tFound.rows, -1))

\* discard_start or discard_end removed a terminal Fragment and the Gap next
\* to it, leaving rows
C27_Witness ==
    /\ tpc \in {"discard_start", "discard_end"}
    /\ tFound.rows # <<>>
    /\ Len(tBefore.rows) = Len(tFound.rows) + 2

\* A discard has emptied the OverlapResult
DiscardedToEmpty ==
    tpc \in {"discard_start", "discard_end"} /\ tFound.rows = <<>>

\* C30: for every OverlapResult returned by find_overlaps and after any
\* sequence of discard_start, discard_end, trim_large_overhangs and
\* trim_fragment, end - start + 1 is the sum of the lengths of its rows; the
\* empty result has end = start - 1.
C30_SpanIsSumOfRows ==
    tFound.bait # <<>> =>
        /\ tFound.end - tFound.start + 1 = ScaffoldLength(tFound.rows)
        /\ length(tFound) = ScaffoldLength(tFound.rows)
        /\ tFound.rows = <<>> => tFound.end = tFound.start - 1

\* trim_fragment has cut an overhang off a row after a discard shortened the
\* OverlapResult
C30_Witness ==
    /\ tpc = "trim_fragment"
    /\ tFound.rows # <<>>
    /\ ScaffoldLength(tFound.rows) < ScaffoldLength(tBefore.rows)
    /\ ScaffoldLength(tBefore.rows) < ScaffoldLength(find_overlaps(tRows, tBait).rows)

\* A call on the OverlapResult has raised
OpRaised == tpc = "raised" /\ tFound.bait # <<>>


----------------------------------------------------------------------------
(* Termination of discard_overhanging_fragments                            *)

\* The cases in which find_assembly_overlaps leaves fragments found more than
\* once, so that the loop is entered
LoopCases ==
    {case \in OverhangCases :
        LET ba == find_assembly_overlaps(
                      BuildAssembly(case.input, case.prtxt, case.bp_per_texel))
        IN  ba.error = "" /\ ba.multi # <<>>}

\* BuildAssembly.__init__: no assemblies yet
LoopInit ==
    /\ bpc = "new"
    /\ build = BuildAssembly(<<>>, <<>>, 1)

\* remap_to_input_assembly(prtxt_asm, input_asm) is called
RemapToInputAssembly ==
    /\ bpc = "new"
    /\ \E case \in LoopCases :
         build' = BuildAssembly(case.input, case.prtxt, case.bp_per_texel)
    /\ bpc' = "find"
    /\ UNCHANGED <<fvars, jvars, ovars>>

SpecBuildLiveNext == RemapToInputAssembly \/ SpecBuildNext

\* The loop body can be run exactly while bpc = "discard", so this is
\* WF_vars(DiscardOverhangingFragments) written out: a pass that can be run
\* is eventually run
LoopFairness ==
    \/ []<>(bpc # "discard")
    \/ []<><<DiscardOverhangingFragments>>_vars

\* The pipeline on those cases, the loop never stalling
SpecBuildLiveInit == LoopInit /\ FIdle /\ JIdle /\ OIdle

SpecBuildLive == SpecBuildLiveInit /\ [][SpecBuildLiveNext]_vars /\ LoopFairness

\* The rows held by all the OverlapResults
TotalRows(ba) == SeqSum([i \in 1..Len(ba.objs) |-> Len(ba.objs[i].rows)])

\* One pass of the loop: if it made a fix, rows were removed; the loop goes
\* round again only after a pass that made a fix and left fragments found
\* more than once
DiscardPassDecreases ==
    bpc = "discard" =>
        /\ build'.fixes_made # <<>> => TotalRows(build') < TotalRows(build)
        /\ bpc' = "discard" => build'.fixes_made # <<>> /\ build'.multi # <<>>
        /\ build'.error = "" /\ (build'.fixes_made = <<>> \/ build'.multi = <<>>)
              => bpc' = "cut"

\* C28: discard_overhanging_fragments terminates on every input: a pass in
\* which make_fixes applies a premise removes at least one row from some
\* OverlapResult, so the total row count strictly decreases; the loop exits
\* on the first pass that makes no fix or when fragments_found_more_than_once
\* becomes empty.
C28_DiscardLoopTerminates ==
    /\ [][DiscardPassDecreases]_vars
    /\ (bpc = "discard") ~> (bpc # "discard")

\* The loop is about to go round again after a pass that made a fix
C28_Witness ==
    bpc = "discard" /\ build.fixes_made # <<>> /\ build.multi # <<>>

\* The loop has ended on a pass that made no fix, with fragments still found
\* more than once
LoopEndedWithoutFix ==
    bpc = "cut" /\ build.fixes_made = <<>> /\ build.multi # <<>>


----------------------------------------------------------------------------
(* Bookkeeping of found_fragments and fragments_found_more_than_once       *)

\* find_assembly_overlaps has returned, or a pass of the loop of
\* discard_overhanging_fragments has ended
BookkeepingPoint == bpc \in {"discard", "cut"}

\* The OverlapResults that hold the fragment with this key as a row
Holders(key) ==
    {id \in 1..Len(build.objs) :
        \E k \in 1..Len(build.objs[id].rows) :
            /\ IsFragment(build.objs[id].rows[k])
            /\ key_tuple(build.objs[id].rows[k]) = key}

\* FoundFragment.scaffolds as a set
Listed(fnd) == {fnd.scaffolds[k] : k \in 1..Len(fnd.scaffolds)}

\* C29: at the end of find_assembly_overlaps and of every iteration of
\* discard_overhanging_fragments, each FoundFragment lists exactly the
\* OverlapResults that hold its fragment as a row, and
\* fragments_found_more_than_once holds exactly the keys whose FoundFragment
\* lists two or more OverlapResults.
C29_FoundFragmentsMatchRows ==
    BookkeepingPoint =>
        /\ \A i \in 1..Len(build.found) :
              /\ Listed(build.found[i]) = Holders(key_tuple(build.found[i].fragment))
              /\ Cardinality(Listed(build.found[i])) = Len(build.found[i].scaffolds)
        /\ {build.multi[k] : k \in 1..Len(build.multi)}
              = {key_tuple(build.found[i].fragment) : i \in
                    {i \in 1..Len(build.found) : Len(build.found[i].scaffolds) >= 2}}

\* A pass has made a fix that took a fragment out of
\* fragments_found_more_than_once while another stays in it
C29_Witness ==
    /\ bpc = "discard"
    /\ build.fixes_made # <<>>
    /\ \E i \in 1..Len(build.found) :
          /\ Len(build.found[i].scaffolds) = 1
          /\ \E k \in 1..Len(build.fixes_made) :
                build.fixes_made[k].fragment = build.found[i].fragment

\* Every fragment held by an OverlapResult is a key of found_fragments
HeldFragmentsFound ==
    BookkeepingPoint =>
        \A id \in 1..Len(build.objs) : \A k \in 1..Len(build.objs[id].rows) :
            IsFragment(build.objs[id].rows[k])
                => FoundAt(build.found, key_tuple(build.objs[id].rows[k])) # 0


=============================================================================
